---- MODULE Spec2Model ----
(***************************************************************************)
(* Lab-report bulk-text parser of TestComponentBulkEntry.tsx: parseText,   *)
(* its regular expressions (REGEX_PATTERNS), and enrichWithStandardized-   *)
(* Tests.  A string is a sequence of one-character strings; the regular    *)
(* expressions are syntax trees run by a backtracking matcher with the     *)
(* priority order of the ECMAScript matcher (leftmost start, alternatives  *)
(* left to right, greedy or lazy quantifiers).                             *)
(***************************************************************************)
EXTENDS Integers, Sequences, FiniteSets, TLC

\* ------------------------------------------------------------ characters

LowerSeq == <<"a","b","c","d","e","f","g","h","i","j","k","l","m",
              "n","o","p","q","r","s","t","u","v","w","x","y","z">>
UpperSeq == <<"A","B","C","D","E","F","G","H","I","J","K","L","M",
              "N","O","P","Q","R","S","T","U","V","W","X","Y","Z">>
Lower == {LowerSeq[i] : i \in DOMAIN LowerSeq}
Upper == {UpperSeq[i] : i \in DOMAIN UpperSeq}
Digit == {"0","1","2","3","4","5","6","7","8","9"}
\* One-character strings outside ASCII are written by name.
EnDash == "endash"
LessEq == "le"
GreaterEq == "ge"
Mu == "mu"
\* \s of the regular expressions and the white space of String.trim
Space == {" ", "\t", "\r"}
\* \w, for \b
WordChar == Lower \cup Upper \cup Digit \cup {"_"}

ToLowerMap == [i \in DOMAIN UpperSeq |-> LowerSeq[i]]
ToLowerChar(c) ==
  IF c \in Upper THEN ToLowerMap[CHOOSE i \in DOMAIN UpperSeq : UpperSeq[i] = c] ELSE c
\* A sequence given as a function, with its elements computed once
AsSeq(f) == <<>> \o f
\* String.prototype.toLowerCase
ToLowerCase(s) == AsSeq([i \in DOMAIN s |-> ToLowerChar(s[i])])

\* ------------------------------------------------- regular expressions

\* Syntax trees.  A quantifier over a character class is one node (every
\* * and + of the source is over a class); ? takes any node.
Cls(S) == [t |-> "cls", s |-> S, neg |-> FALSE]
NotCls(S) == [t |-> "cls", s |-> S, neg |-> TRUE]
\* . matches everything but a line terminator
AnyChar == NotCls({"\n", "\r"})
Cat(xs) == [t |-> "seq", xs |-> xs]
Alt(xs) == [t |-> "alt", xs |-> xs]
Grp(n, x) == [t |-> "grp", n |-> n, x |-> x]
Rep(c, min, lazy) == [t |-> "rep", s |-> c.s, neg |-> c.neg, min |-> min, lazy |-> lazy]
Star(c) == Rep(c, 0, FALSE)
Plus(c) == Rep(c, 1, FALSE)
LazyStar(c) == Rep(c, 0, TRUE)
LazyPlus(c) == Rep(c, 1, TRUE)
Opt(x) == [t |-> "opt", x |-> x]
Bol == [t |-> "bol"]
Eol == [t |-> "eol"]
WordBoundary == [t |-> "wb"]
\* a literal word under the i flag
LitI(w) == [t |-> "lit", w |-> ToLowerCase(w)]

NGroups == 7
Undef == <<>>
NoCaps == [n \in 1..NGroups |-> Undef]
Fail == [ok |-> FALSE]

IsWordAt(s, i) == i >= 1 /\ i <= Len(s) /\ s[i] \in WordChar
InClass(n, c) == (c \in n.s) # n.neg

\* The matcher works on threads: a thread is a position in s with the
\* captures made on the way there, and a sequence of threads is in the
\* priority order of the backtracking matcher (the order in which it would
\* try them).  Two threads at one position continue alike, so only the
\* first is kept.

\* The threads of the lists ls (a sequence of thread sequences), in order,
\* keeping the first thread at each position.
OrderedUnionOf(ls) ==
  IF Len(ls) = 1 THEN ls[1]
  ELSE
    LET Keys == UNION {{<<a, b>> : b \in DOMAIN ls[a]} : a \in DOMAIN ls}
        Before(x, y) == x[1] < y[1] \/ (x[1] = y[1] /\ x[2] < y[2])
        At(x) == ls[x[1]][x[2]]
        Firsts == {x \in Keys : \A y \in Keys : At(y).pos = At(x).pos => ~Before(y, x)}
        Rank(x) == Cardinality({y \in Firsts : Before(y, x)}) + 1
    IN AsSeq([r \in 1..Cardinality(Firsts) |-> At(CHOOSE x \in Firsts : Rank(x) = r)])
OrderedUnion(ls) == OrderedUnionOf(AsSeq(ls))

\* the length of the longest run of class characters of s from position p
RunLength(n, s, p) ==
  CHOOSE k \in 0..(Len(s) + 1 - p) :
    /\ \A j \in 0..(k - 1) : InClass(n, s[p + j])
    /\ (p + k > Len(s) \/ ~InClass(n, s[p + k]))

\* the threads after a quantified class, from one thread: the longest run
\* first when greedy, the shortest first when lazy
RepThreads(n, s, e) ==
  LET run == RunLength(n, s, e.pos)
      count == run - n.min + 1
  IN IF count <= 0 THEN <<>>
     ELSE AsSeq([r \in 1..count |->
             [e EXCEPT !.pos = IF n.lazy THEN e.pos + n.min + (r - 1)
                                 ELSE e.pos + run - (r - 1)]])

LitAt(w, s, p) ==
  /\ p + Len(w) - 1 <= Len(s)
  /\ \A j \in 1..Len(w) : ToLowerChar(s[p + j - 1]) = w[j]

\* Threads(n, s, E): the threads after node n, started from the threads E
RECURSIVE Threads(_, _, _)
RECURSIVE CatFrom(_, _, _, _)
CatFrom(xs, i, s, E) ==
  IF i > Len(xs) \/ Len(E) = 0 THEN E
  ELSE CatFrom(xs, i + 1, s, Threads(xs[i], s, E))
Threads(n, s, E) ==
  IF Len(E) = 0 THEN E
  ELSE
    CASE n.t = "cls" ->
           LET hit == SelectSeq(E, LAMBDA e : e.pos <= Len(s) /\ InClass(n, s[e.pos]))
           IN AsSeq([k \in DOMAIN hit |-> [hit[k] EXCEPT !.pos = @ + 1]])
      [] n.t = "lit" ->
           LET hit == SelectSeq(E, LAMBDA e : LitAt(n.w, s, e.pos))
           IN AsSeq([k \in DOMAIN hit |-> [hit[k] EXCEPT !.pos = @ + Len(n.w)]])
      [] n.t = "bol" -> SelectSeq(E, LAMBDA e : e.pos = 1)
      [] n.t = "eol" -> SelectSeq(E, LAMBDA e : e.pos = Len(s) + 1)
      [] n.t = "wb" -> SelectSeq(E, LAMBDA e : IsWordAt(s, e.pos - 1) # IsWordAt(s, e.pos))
      [] n.t = "seq" -> CatFrom(n.xs, 1, s, E)
      [] n.t = "grp" ->
           LET open == AsSeq([k \in DOMAIN E |-> [E[k] EXCEPT !.caps[n.n] = <<E[k].pos, 0>>]])
               done == Threads(n.x, s, open)
           IN AsSeq([k \in DOMAIN done |->
                [done[k] EXCEPT !.caps[n.n] = <<done[k].caps[n.n][1], done[k].pos>>]])
      [] n.t = "alt" ->
           OrderedUnion([k \in DOMAIN E |->
             OrderedUnion([a \in DOMAIN n.xs |-> Threads(n.xs[a], s, <<E[k]>>)])])
      [] n.t = "opt" ->
           OrderedUnion([k \in DOMAIN E |->
             OrderedUnion(<<Threads(n.x, s, <<E[k]>>), <<E[k]>>>>)])
      [] n.t = "rep" ->
           OrderedUnion([k \in DOMAIN E |-> RepThreads(n, s, E[k])])

\* String.prototype.match without the g flag: the first thread from the
\* leftmost start position that has one, with group 0 as [from, end).
\* all[st] holds the threads of an attempt started at position st.
MatchAt(all, st) ==
  [ok |-> TRUE, from |-> st, end |-> all[st][1].pos, caps |-> all[st][1].caps]
FirstMatch(all) ==
  IF \A st \in DOMAIN all : Len(all[st]) = 0 THEN Fail
  ELSE MatchAt(all, CHOOSE st \in DOMAIN all :
                      Len(all[st]) > 0 /\ \A y \in 1..(st - 1) : Len(all[y]) = 0)
Match(s, re) ==
  FirstMatch(AsSeq([st \in 1..(Len(s) + 1) |->
                      Threads(re, s, <<[pos |-> st, caps |-> NoCaps]>>)]))

\* match[n]: the captured text, or Undef
Group(s, m, n) ==
  IF m.caps[n] = Undef THEN Undef ELSE SubSeq(s, m.caps[n][1], m.caps[n][2] - 1)

\* ------------------------------------------------------------ JS values

\* A value of a record field: undefined, null, NaN, a number m / 10^e
\* (e the count of fraction digits, trailing zeros dropped so that equal
\* numbers are equal values) or a string.
Undefined == [k |-> "undefined", m |-> 0, e |-> 0, v |-> <<>>]
Null == [k |-> "null", m |-> 0, e |-> 0, v |-> <<>>]
NaN == [k |-> "nan", m |-> 0, e |-> 0, v |-> <<>>]
StrV(s) == [k |-> "str", m |-> 0, e |-> 0, v |-> s]
RECURSIVE Normal(_, _)
Normal(m, e) ==
  IF e > 0 /\ m % 10 = 0 THEN Normal(m \div 10, e - 1)
  ELSE [k |-> "num", m |-> m, e |-> e, v |-> <<>>]
NumV(m, e) == Normal(m, e)
IsNum(x) == x.k = "num"
IsNaN(x) == x.k = "nan"
RECURSIVE Pow10(_)
Pow10(n) == IF n = 0 THEN 1 ELSE 10 * Pow10(n - 1)
\* a < b and a > b on numbers
NumLess(a, b) == a.m * Pow10(b.e) < b.m * Pow10(a.e)
NumGreater(a, b) == NumLess(b, a)
\* !x
Falsy(x) ==
  \/ x.k \in {"undefined", "null", "nan"}
  \/ x.k = "num" /\ x.m = 0
  \/ x.k = "str" /\ Len(x.v) = 0

\* --------------------------------------------------------- string parts

RECURSIVE TrimStart(_)
TrimStart(s) == IF Len(s) > 0 /\ Head(s) \in Space THEN TrimStart(Tail(s)) ELSE s
RECURSIVE TrimEnd(_)
TrimEnd(s) ==
  IF Len(s) > 0 /\ s[Len(s)] \in Space THEN TrimEnd(SubSeq(s, 1, Len(s) - 1)) ELSE s
\* String.prototype.trim
Trim(s) == TrimEnd(TrimStart(s))
\* s.replace(/[S]/g, '')
RemoveAll(s, S) == SelectSeq(s, LAMBDA c : c \notin S)
\* s.replace(re, '') without the g flag
CutMatch(s, m) ==
  IF m.ok THEN SubSeq(s, 1, m.from - 1) \o SubSeq(s, m.end, Len(s)) ELSE s
ReplaceFirst(s, re) == CutMatch(s, Match(s, re))
\* /[,;:]+$/
TrailingPunct == Cat(<<Plus(Cls({",", ";", ":"})), Eol>>)
\* s.includes(w)
Includes(s, w) ==
  \E i \in 1..(Len(s) - Len(w) + 1) : SubSeq(s, i, i + Len(w) - 1) = w

\* The digits of s from position i on, as a count
RECURSIVE DigitsEnd(_, _)
DigitsEnd(s, i) == IF i <= Len(s) /\ s[i] \in Digit THEN DigitsEnd(s, i + 1) ELSE i
DigitVal(c) == CHOOSE d \in 0..9 : <<"0","1","2","3","4","5","6","7","8","9">>[d + 1] = c
RECURSIVE DigitsNum(_, _, _, _)
DigitsNum(s, i, j, acc) ==
  IF i >= j THEN acc ELSE DigitsNum(s, i + 1, j, acc * 10 + DigitVal(s[i]))
\* parseFloat: leading white space, a sign, then the longest prefix
\* digits[.digits] or .digits; NaN when there is none.  (An exponent part
\* needs e or E straight after the digits, which no string parsed here has.)
\* p is where the digits start, q where the integer digits end, f where the
\* fraction digits end (q when there is no decimal point).
FloatOf(s, p, q, f) ==
  IF q = p /\ f <= q + 1 THEN NaN
  ELSE NumV((IF s[1] = "-" THEN 0 - 1 ELSE 1)
              * DigitsNum(s, q + 1, f, DigitsNum(s, p, q, 0)),
            IF f > q THEN f - (q + 1) ELSE 0)
FloatFraction(s, p, q) ==
  FloatOf(s, p, q, IF q <= Len(s) /\ s[q] = "." THEN DigitsEnd(s, q + 1) ELSE q)
FloatDigits(s, p) == FloatFraction(s, p, DigitsEnd(s, p))
FloatSign(s) ==
  IF Len(s) = 0 THEN NaN
  ELSE FloatDigits(s, IF s[1] \in {"-", "+"} THEN 2 ELSE 1)
ParseFloat(str) == FloatSign(TrimStart(str))

\* ------------------------------------------------------- REGEX_PATTERNS

Chr(c) == Cls({c})
Spaces0 == Star(Cls(Space))
Spaces1 == Plus(Cls(Space))
\* NUMERIC_VALUE ([0-9.,]+), as capture group n
NumericValue(n) == Grp(n, Plus(Cls(Digit \cup {".", ","})))
\* RANGE_SEPARATOR and COMPARISON_OP
RangeSeparator == Cls({"-", EnDash})
ComparisonOp == Cls({"<", ">", LessEq, GreaterEq})
AlNum == Lower \cup Upper \cup Digit
\* UNIT_PATTERN, spliced into a group as written: its | splits the group
UnitPattern ==
  Alt(<<Cat(<<Plus(Cls(AlNum \cup {"/", "%", Mu})),
              Opt(Cat(<<Chr("/"), Plus(Cls(AlNum))>>))>>),
        Cat(<<LitI(<<"x", "1", "0", "E">>), Plus(Cls(Digit)), Chr("/"),
              Plus(Cls(Lower \cup Upper))>>)>>)
\* TEST_NAME (.+?)
TestName == Grp(1, LazyPlus(AnyChar))
StatusWords ==
  <<<<"n","o","r","m","a","l">>, <<"h","i","g","h">>, <<"l","o","w">>,
    <<"c","r","i","t","i","c","a","l">>, <<"a","b","n","o","r","m","a","l">>,
    <<"b","o","r","d","e","r","l","i","n","e">>>>
StatusAlt(words) == Alt(AsSeq([i \in DOMAIN words |-> LitI(words[i])]))
\* [<>...]\s*[0-9.,]+
Comparison == Cat(<<ComparisonOp, Spaces0, Plus(Cls(Digit \cup {".", ","}))>>)

FULL_PATTERN ==
  Cat(<<Bol, TestName, Chr(":"), Spaces0, NumericValue(2), Spaces0,
        Opt(Grp(3, UnitPattern)), Spaces0,
        Opt(Alt(<<
          Cat(<<Chr("("),
                Opt(Cat(<<LazyStar(AnyChar), LitI(<<"r","a","n","g","e">>),
                          LazyStar(AnyChar), Chr(":"), Spaces0>>)),
                NumericValue(4), Spaces0, RangeSeparator, Spaces0, NumericValue(5),
                LazyStar(AnyChar), Chr(")")>>),
          Cat(<<Chr("("), Grp(6, Comparison), Chr(")")>>),
          Cat(<<Chr("("), LitI(<<"N","o","t">>), Spaces1, LitI(<<"E","s","t","a","b">>),
                Opt(Chr(".")), Chr(")")>>),
          Grp(7, Cat(<<Chr("("), Star(NotCls({")"})), Chr(")")>>))>>))>>)

TABULAR_PATTERN ==
  Cat(<<Bol, TestName, Spaces1, NumericValue(2), Spaces1, Grp(3, UnitPattern), Spaces1,
        Alt(<<Cat(<<NumericValue(4), Spaces0, RangeSeparator, Spaces0, NumericValue(5)>>),
              Grp(6, Comparison)>>),
        Spaces0, Opt(Grp(7, StatusAlt(StatusWords)))>>)

SIMPLE_PATTERN ==
  Cat(<<Bol, TestName, Spaces1, NumericValue(2), Spaces1, Grp(3, UnitPattern)>>)

CsvSep == Plus(Cls({",", "\t"}))
CsvField(n) == Grp(n, LazyStar(NotCls({",", "\t"})))
CSV_PATTERN ==
  Cat(<<Bol, TestName, CsvSep, NumericValue(2), CsvSep, Grp(3, UnitPattern),
        Opt(Cat(<<CsvSep, CsvField(4)>>)), Opt(Cat(<<CsvSep, CsvField(5)>>)), Eol>>)

\* Object.entries(patterns): the names in insertion order
PatternNames == <<"fullPattern", "tabularPattern", "simplePattern", "csvPattern">>
PatternOf(name) ==
  CASE name = "fullPattern" -> FULL_PATTERN
    [] name = "tabularPattern" -> TABULAR_PATTERN
    [] name = "simplePattern" -> SIMPLE_PATTERN
    [] name = "csvPattern" -> CSV_PATTERN

\* the regular expressions written inline in parseText
CompMatchRe ==
  Cat(<<Bol, Grp(1, ComparisonOp), Spaces0, Grp(2, Plus(Cls(Digit \cup {".", ","}))), Eol>>)
NotEstabRe ==
  Cat(<<Chr("("), LitI(<<"N","o","t">>), Spaces1, LitI(<<"E","s","t","a","b">>),
        Opt(Chr(".")), Chr(")")>>)
BracketStatusRe == Cat(<<Chr("["), Grp(1, StatusAlt(Tail(StatusWords))), Chr("]")>>)
WordStatusRe == Cat(<<WordBoundary, Grp(1, StatusAlt(StatusWords)), WordBoundary>>)
AbbreviationRe == Cat(<<Chr("("), Grp(1, Plus(Cls(Upper \cup Digit))), Chr(")")>>)
ParentheticalRe == Cat(<<Spaces0, Chr("("), Plus(NotCls({")"})), Chr(")")>>)
FallbackRe == Cat(<<Bol, TestName, Spaces1, NumericValue(2)>>)

\* ------------------------------------------------------------ parseText

NORMAL == <<"n","o","r","m","a","l">>
HIGH == <<"h","i","g","h">>
LOW == <<"l","o","w">>
NOT_ESTAB == <<"N","o","t"," ","E","s","t","a","b",".">>

\* confidence is held in hundredths
Min(a, b) == IF a < b THEN a ELSE b
Max(a, b) == IF a > b THEN a ELSE b

\* the object literal of a freshly parsed component
NewParsed(testName, value, unit, line, confidence, issues) ==
  [test_name |-> testName, abbreviation |-> Undefined, canonical_test_name |-> Undefined,
   value |-> value, unit |-> unit,
   ref_range_min |-> Undefined, ref_range_max |-> Undefined, ref_range_text |-> Undefined,
   status |-> Undefined, category |-> Undefined, loinc_code |-> Undefined,
   original_line |-> line, confidence |-> confidence, issues |-> issues]

\* "Parse reference range if available": the if / else-if chain on
\* match[4] && match[5], match[6], match[7].  pc is the component being
\* built (p) with the confidence so far (c).
WithMinMax(pc, rangeMin, rangeMax) ==
  IF ~IsNaN(rangeMin) /\ ~IsNaN(rangeMax)
  THEN [p |-> [pc.p EXCEPT !.ref_range_min = rangeMin, !.ref_range_max = rangeMax],
        c |-> pc.c + 20]
  ELSE pc
\* the bounds the other way round: < sets the minimum, > the maximum
WithBoundSwapped(p, op, num) ==
  IF IsNaN(num) THEN p
  ELSE IF op \in {"<", LessEq} THEN [p EXCEPT !.ref_range_min = num]
  ELSE IF op \in {">", GreaterEq} THEN [p EXCEPT !.ref_range_max = num]
  ELSE p
WithBound(p, op, num) ==
  IF IsNaN(num) THEN p
  ELSE IF op \in {"<", LessEq} THEN [p EXCEPT !.ref_range_max = num]
  ELSE IF op \in {">", GreaterEq} THEN [p EXCEPT !.ref_range_min = num]
  ELSE p
WithCompMatch(p, compText, compMatch) ==
  IF compMatch.ok
  THEN WithBound(p, Group(compText, compMatch, 1)[1],
                 ParseFloat(RemoveAll(Group(compText, compMatch, 2), {","})))
  ELSE p
WithComparison(pc, compText) ==
  [p |-> WithCompMatch([pc.p EXCEPT !.ref_range_text = StrV(compText)],
                       compText, Match(compText, CompMatchRe)),
   c |-> pc.c + 10]
WithRange(pc, line, m) ==
  IF Len(Group(line, m, 4)) > 0 /\ Len(Group(line, m, 5)) > 0
  THEN WithMinMax(pc, ParseFloat(RemoveAll(Group(line, m, 4), {","})),
                      ParseFloat(RemoveAll(Group(line, m, 5), {","})))
  ELSE IF Len(Group(line, m, 6)) > 0
  THEN WithComparison(pc, Trim(Group(line, m, 6)))
  ELSE IF Len(Group(line, m, 7)) > 0
  THEN [p |-> [pc.p EXCEPT !.ref_range_text =
                 StrV(Trim(RemoveAll(Group(line, m, 7), {"(", ")"})))],
        c |-> pc.c + 5]
  ELSE pc

\* "Check if Not Estab. appears anywhere in the line"
WithNotEstab(pc, line) ==
  IF Falsy(pc.p.ref_range_min) /\ Falsy(pc.p.ref_range_max) /\ Falsy(pc.p.ref_range_text)
     /\ Match(line, NotEstabRe).ok
  THEN [p |-> [pc.p EXCEPT !.ref_range_text = StrV(NOT_ESTAB)], c |-> pc.c + 10]
  ELSE pc

\* the status read with the plain word tried before the bracketed token
WithStatusMatchWordFirst(pc, line, bracketStatusMatch, statusMatch) ==
  IF statusMatch.ok
  THEN [p |-> [pc.p EXCEPT !.status = StrV(ToLowerCase(Group(line, statusMatch, 1)))],
        c |-> pc.c + 5]
  ELSE IF bracketStatusMatch.ok
  THEN [p |-> [pc.p EXCEPT !.status = StrV(ToLowerCase(Group(line, bracketStatusMatch, 1)))],
        c |-> pc.c + 10]
  ELSE pc

\* "Parse status - check for [High], [Low], etc. first, then plain text"
WithStatusMatch(pc, line, bracketStatusMatch, statusMatch) ==
  IF bracketStatusMatch.ok
  THEN [p |-> [pc.p EXCEPT !.status = StrV(ToLowerCase(Group(line, bracketStatusMatch, 1)))],
        c |-> pc.c + 10]
  ELSE IF statusMatch.ok
  THEN [p |-> [pc.p EXCEPT !.status = StrV(ToLowerCase(Group(line, statusMatch, 1)))],
        c |-> pc.c + 5]
  ELSE pc
WithStatus(pc, line) ==
  WithStatusMatch(pc, line, Match(line, BracketStatusRe), Match(line, WordStatusRe))

\* "Auto-detect abbreviations"
WithAbbreviationMatch(pc, testName, abbreviationMatch) ==
  IF abbreviationMatch.ok
  THEN [p |-> [pc.p EXCEPT !.abbreviation = StrV(Group(testName, abbreviationMatch, 1)),
                           !.test_name = Trim(ReplaceFirst(testName, ParentheticalRe))],
        c |-> pc.c + 5]
  ELSE pc
WithAbbreviation(pc, testName) ==
  WithAbbreviationMatch(pc, testName, Match(testName, AbbreviationRe))

\* the comparisons of the auto-calculation with >= and <= for > and <
AutoStatusExclusive(p) ==
  IF Falsy(p.status) /\ p.value # Null
  THEN IF IsNum(p.ref_range_min) /\ IsNum(p.ref_range_max)
       THEN IF ~NumLess(p.value, p.ref_range_max) THEN [p EXCEPT !.status = StrV(HIGH)]
            ELSE IF ~NumGreater(p.value, p.ref_range_min) THEN [p EXCEPT !.status = StrV(LOW)]
            ELSE [p EXCEPT !.status = StrV(NORMAL)]
       ELSE IF IsNum(p.ref_range_max)
       THEN [p EXCEPT !.status =
               IF ~NumLess(p.value, p.ref_range_max) THEN StrV(HIGH) ELSE StrV(NORMAL)]
       ELSE IF IsNum(p.ref_range_min)
       THEN [p EXCEPT !.status =
               IF ~NumGreater(p.value, p.ref_range_min) THEN StrV(LOW) ELSE StrV(NORMAL)]
       ELSE p
  ELSE p

\* "Auto-calculate status if not already set and we have reference range data"
AutoStatus(p) ==
  IF Falsy(p.status) /\ p.value # Null
  THEN IF IsNum(p.ref_range_min) /\ IsNum(p.ref_range_max)
       THEN IF NumGreater(p.value, p.ref_range_max) THEN [p EXCEPT !.status = StrV(HIGH)]
            ELSE IF NumLess(p.value, p.ref_range_min) THEN [p EXCEPT !.status = StrV(LOW)]
            ELSE [p EXCEPT !.status = StrV(NORMAL)]
       ELSE IF IsNum(p.ref_range_max)
       THEN [p EXCEPT !.status =
               IF NumGreater(p.value, p.ref_range_max) THEN StrV(HIGH) ELSE StrV(NORMAL)]
       ELSE IF IsNum(p.ref_range_min)
       THEN [p EXCEPT !.status =
               IF NumLess(p.value, p.ref_range_min) THEN StrV(LOW) ELSE StrV(NORMAL)]
       ELSE p
  ELSE p

NoRecord == [ok |-> FALSE]
\* r, or other where r is no record
OrElse(r, other) == IF r.ok THEN r ELSE other

\* "parsed.confidence = Math.min(confidence, 1.0)" after the status is settled
Finished(pc, patternName) ==
  [ok |-> TRUE, parsed |-> [AutoStatus(pc.p) EXCEPT !.confidence = Min(pc.c, 100)],
   pattern |-> patternName]

\* the start without the 0.3 of fullPattern
BaseConfidenceFlat(unit, patternName) ==
  50 + (IF Len(unit) > 0 THEN 20 ELSE 0)
\* the confidence a match starts with: 0.5, +0.2 with a unit, +0.3 for fullPattern
BaseConfidence(unit, patternName) ==
  50 + (IF Len(unit) > 0 THEN 20 ELSE 0) + (IF patternName = "fullPattern" THEN 30 ELSE 0)

\* the body of "if (match)" from the value on, without its isNaN test
FromValueUnchecked(line, patternName, match, testName, value, unit) ==
  Finished(
    WithAbbreviation(
      WithStatus(
        WithNotEstab(
          WithRange([p |-> NewParsed(testName, value, unit, line, 0, <<>>),
                     c |-> BaseConfidence(unit, patternName)],
                    line, match),
          line),
        line),
      testName),
    patternName)

\* the body of "if (match)" from the value on; no record when the value is NaN
FromValue(line, patternName, match, testName, value, unit) ==
  IF IsNaN(value) THEN NoRecord
  ELSE Finished(
         WithAbbreviation(
           WithStatus(
             WithNotEstab(
               WithRange([p |-> NewParsed(testName, value, unit, line, 0, <<>>),
                          c |-> BaseConfidence(unit, patternName)],
                         line, match),
               line),
             line),
           testName),
         patternName)

\* "if (!testName || !valueStr) continue"
FromFields(line, patternName, match, testName, valueStr, unit) ==
  IF Len(testName) = 0 \/ Len(valueStr) = 0 THEN NoRecord
  ELSE FromValue(line, patternName, match, testName, ParseFloat(valueStr), unit)

FromMatch(line, patternName, match) ==
  IF ~match.ok THEN NoRecord
  ELSE FromFields(line, patternName, match,
                  ReplaceFirst(Trim(Group(line, match, 1)), TrailingPunct),
                  RemoveAll(Group(line, match, 2), {","}),
                  Trim(Group(line, match, 3)))

\* One turn of the pattern loop: the body of "if (match)" for one pattern.
\* ok is FALSE where the code continues with the next pattern.
TryPattern(line, patternName) ==
  FromMatch(line, patternName, Match(line, PatternOf(patternName)))

\* the loop with the last pattern that gives a record winning
RECURSIVE PatternLoopLast(_, _)
PatternLoopLast(line, i) ==
  IF i > Len(PatternNames) THEN NoRecord
  ELSE OrElse(PatternLoopLast(line, i + 1), TryPattern(line, PatternNames[i]))

\* "Try patterns in order of specificity": for ... of Object.entries(patterns)
RECURSIVE PatternLoop(_, _)
PatternLoop(line, i) ==
  IF i > Len(PatternNames) THEN NoRecord
  ELSE OrElse(TryPattern(line, PatternNames[i]), PatternLoop(line, i + 1))

\* the fallback without its isNaN test
FallbackValueUnchecked(line, fallbackMatch, value) ==
  [ok |-> TRUE,
   parsed |-> NewParsed(ReplaceFirst(Trim(Group(line, fallbackMatch, 1)), TrailingPunct),
                        value, <<>>, line, 20,
                        <<"Could not detect unit", "Could not detect reference range">>),
   pattern |-> "fallback"]

\* "Fallback: try to extract at least test name and value"
FallbackValue(line, fallbackMatch, value) ==
  IF IsNaN(value) THEN NoRecord
  ELSE [ok |-> TRUE,
        parsed |-> NewParsed(ReplaceFirst(Trim(Group(line, fallbackMatch, 1)), TrailingPunct),
                             value, <<>>, line, 20,
                             <<"Could not detect unit", "Could not detect reference range">>),
        pattern |-> "fallback"]
FallbackMatch(line, fallbackMatch) ==
  IF fallbackMatch.ok
  THEN FallbackValue(line, fallbackMatch,
                     ParseFloat(RemoveAll(Group(line, fallbackMatch, 2), {","})))
  ELSE NoRecord
Fallback(line) == FallbackMatch(line, Match(line, FallbackRe))

\* "Validate parsed data"
CheckName(parsed) ==
  IF Len(parsed.test_name) < 2
  THEN [parsed EXCEPT !.issues = Append(@, "Test name too short"),
                      !.confidence = Max(0, @ - 30)]
  ELSE parsed
CheckUnit(parsed) ==
  IF Len(parsed.unit) = 0
  THEN [parsed EXCEPT !.issues = Append(@, "Unit not detected")] ELSE parsed
CheckRange(parsed) ==
  IF Falsy(parsed.ref_range_min) /\ Falsy(parsed.ref_range_max)
     /\ Falsy(parsed.ref_range_text)
  THEN [parsed EXCEPT !.issues = Append(@, "Reference range not detected")] ELSE parsed
\* the reduction with its floor at 0.5
ReduceConfidenceFloorHalf(parsed) ==
  IF Len(parsed.issues) > 0
  THEN [parsed EXCEPT !.confidence = Max(50, @ - Min(Len(parsed.issues) * 15, 50))]
  ELSE parsed
\* "Reduce confidence based on number of issues"
ReduceConfidence(parsed) ==
  IF Len(parsed.issues) > 0
  THEN [parsed EXCEPT !.confidence = Max(10, @ - Min(Len(parsed.issues) * 15, 50))]
  ELSE parsed
Validate(parsed) == ReduceConfidence(CheckRange(CheckUnit(CheckName(parsed))))

\* The body of lines.forEach for a line that is neither blank nor the
\* skipped header: the record pushed, or none (the line is counted failed).
Validated(found) ==
  IF found.ok
  THEN [ok |-> TRUE, parsed |-> Validate(found.parsed), pattern |-> found.pattern,
        before |-> found.parsed]
  ELSE NoRecord
\* the fallback tried before the patterns
ParseLineFallbackFirst(trimmedLine) ==
  Validated(OrElse(Fallback(trimmedLine), PatternLoop(trimmedLine, 1)))
ParseLine(trimmedLine) ==
  Validated(OrElse(PatternLoop(trimmedLine, 1), Fallback(trimmedLine)))

\* text.split('\n')
Split(text) ==
  LET NL == {i \in DOMAIN text : text[i] = "\n"}
      Starts == {0} \cup NL
      Ends == NL \cup {Len(text) + 1}
      Kth(S, k) == CHOOSE x \in S : Cardinality({y \in S : y < x}) = k - 1
  IN AsSeq([k \in 1..(Cardinality(NL) + 1) |->
              SubSeq(text, Kth(Starts, k) + 1, Kth(Ends, k) - 1)])

headerKeywords ==
  <<<<"t","e","s","t">>, <<"n","a","m","e">>, <<"v","a","l","u","e">>,
    <<"r","e","s","u","l","t">>, <<"u","n","i","t">>, <<"r","a","n","g","e">>,
    <<"s","t","a","t","u","s">>, <<"r","e","f","e","r","e","n","c","e">>>>
\* headerKeywords.some(keyword => trimmedLine.toLowerCase().includes(keyword))
IsHeader(trimmedLine) ==
  \E k \in DOMAIN headerKeywords : Includes(ToLowerCase(trimmedLine), headerKeywords[k])

\* the header test without "index === 0"
HeaderSkipAnywhere(settings, index, trimmedLine) ==
  settings.detectHeaders /\ IsHeader(trimmedLine)

\* the header test of the forEach callback: parseSettings.detectHeaders && index === 0
\* (index counts from 0 in the code, from 1 here)
HeaderSkip(settings, index, trimmedLine) ==
  settings.detectHeaders /\ index = 1 /\ IsHeader(trimmedLine)

\* The walk of lines.forEach.  acc carries components and failedLineCount,
\* and three records of the run that the code does not keep: the pattern
\* that made each component, the component as it was when its validation
\* began, and what became of each line.

\* the end of the callback with a failed line left uncounted
PushUncounted(acc, r) ==
  IF r.ok
  THEN [acc EXCEPT !.components = Append(@, r.parsed),
                   !.patterns = Append(@, r.pattern),
                   !.before = Append(@, r.before),
                   !.outcomes = Append(@, "record")]
  ELSE [acc EXCEPT !.outcomes = Append(@, "failed")]
\* the end of the callback: "if (parsed) components.push(parsed) else failedLineCount++"
Push(acc, r) ==
  IF r.ok
  THEN [acc EXCEPT !.components = Append(@, r.parsed),
                   !.patterns = Append(@, r.pattern),
                   !.before = Append(@, r.before),
                   !.outcomes = Append(@, "record")]
  ELSE [acc EXCEPT !.failedLineCount = @ + 1,
                   !.outcomes = Append(@, "failed")]
\* the callback of lines.forEach for the line at index
Callback(acc, settings, index, trimmedLine) ==
  IF Len(trimmedLine) = 0
  THEN [acc EXCEPT !.outcomes = Append(@, "blank")]
  ELSE IF HeaderSkip(settings, index, trimmedLine)
  THEN [acc EXCEPT !.outcomes = Append(@, "header")]
  ELSE Push(acc, ParseLine(trimmedLine))
RECURSIVE ForEachLine(_, _, _, _)
ForEachLine(lines, i, settings, acc) ==
  IF i > Len(lines) THEN acc
  ELSE ForEachLine(lines, i + 1, settings, Callback(acc, settings, i, Trim(lines[i])))

\* the lines parseText walks: split, then the blank filter of skipEmptyLines
LinesOf(text, settings) ==
  SelectSeq(Split(text), LAMBDA line : settings.skipEmptyLines => Len(Trim(line)) > 0)

parseText(text, settings) ==
  ForEachLine(LinesOf(text, settings), 1, settings,
              [components |-> <<>>, failedLineCount |-> 0,
               patterns |-> <<>>, before |-> <<>>, outcomes |-> <<>>])

\* ------------------------------------------ enrichWithStandardizedTests

\* issues.splice(issues.indexOf(x), 1) when x is in issues
RemoveFirst(issues, x) ==
  IF \E i \in DOMAIN issues : issues[i] = x
  THEN LET at == CHOOSE i \in DOMAIN issues :
                   issues[i] = x /\ \A j \in 1..(i - 1) : issues[j] # x
       IN SubSeq(issues, 1, at - 1) \o SubSeq(issues, at + 1, Len(issues))
  ELSE issues

\* an enrichment that also renames the component after the library item
EnrichOneRenamed(component, matches) ==
  IF Len(matches) = 0 THEN component
  ELSE [component EXCEPT !.test_name = matches[1].test_name,
                         !.canonical_test_name = StrV(matches[1].test_name)]

\* an enrichment in which the library's abbreviation and unit replace those
\* read from the text
EnrichOneOverwriting(component, matches) ==
  IF Len(matches) = 0 THEN component
  ELSE [component EXCEPT !.canonical_test_name = StrV(matches[1].test_name),
                         !.abbreviation = matches[1].abbreviation,
                         !.unit = matches[1].default_unit,
                         !.category = matches[1].category,
                         !.loinc_code = matches[1].test_code]

\* an enrichment that gives back the 0.15 of the issue it removes
EnrichOneRescored(component, matches) ==
  IF Len(matches) = 0 THEN component
  ELSE IF Len(component.unit) = 0 /\ Len(matches[1].default_unit) > 0
  THEN [component EXCEPT !.canonical_test_name = StrV(matches[1].test_name),
                         !.unit = matches[1].default_unit,
                         !.issues = RemoveFirst(@, "Unit not detected"),
                         !.confidence = Min(100, @ + 15)]
  ELSE [component EXCEPT !.canonical_test_name = StrV(matches[1].test_name)]

\* an enrichment that gives a component without a match its own name as
\* canonical name
EnrichOneSelfNamed(component, matches) ==
  IF Len(matches) = 0
  THEN [component EXCEPT !.canonical_test_name = StrV(component.test_name)]
  ELSE [component EXCEPT !.canonical_test_name = StrV(matches[1].test_name)]

\* The callback of components.map for one component; matches is the result
\* of searchTests(component.test_name, 1): <<>> or one library item.
EnrichOne(component, matches) ==
  IF Len(matches) = 0 THEN component
  ELSE
    LET standardizedTest == matches[1]
        c1 == [component EXCEPT !.canonical_test_name = StrV(standardizedTest.test_name)]
        c2 == IF Falsy(c1.abbreviation) /\ ~Falsy(standardizedTest.abbreviation)
              THEN [c1 EXCEPT !.abbreviation = standardizedTest.abbreviation] ELSE c1
        c3 == IF Len(c2.unit) = 0 /\ Len(standardizedTest.default_unit) > 0
              THEN [c2 EXCEPT !.unit = standardizedTest.default_unit,
                              !.issues = RemoveFirst(@, "Unit not detected")]
              ELSE c2
        c4 == IF ~Falsy(standardizedTest.category)
              THEN [c3 EXCEPT !.category = standardizedTest.category] ELSE c3
        c5 == IF ~Falsy(standardizedTest.test_code)
              THEN [c4 EXCEPT !.loinc_code = standardizedTest.test_code] ELSE c4
    IN c5

enrichWithStandardizedTests(components, found) ==
  AsSeq([i \in DOMAIN components |-> EnrichOne(components[i], found[i])])

\* --------------------------------------------------------------- inputs

\* A number as written in a report: its characters and the number meant.
Tok(s, n) == [s |-> s, n |-> n]
T0 == Tok(<<"0">>, NumV(0, 0))
T3 == Tok(<<"3">>, NumV(3, 0))
T5 == Tok(<<"5">>, NumV(5, 0))
T7 == Tok(<<"7">>, NumV(7, 0))
T9 == Tok(<<"9">>, NumV(9, 0))
T36 == Tok(<<"3", ".", "6">>, NumV(36, 1))
T100 == Tok(<<"1", "0", ".", "0">>, NumV(10, 0))
T1000 == Tok(<<"1", ",", "0", "0", "0">>, NumV(1000, 0))
\* a value column that holds no number
TDot == Tok(<<".">>, NaN)
NoTok == Tok(<<>>, NaN)

NoRange == [kind |-> "none", prefix |-> <<>>, lo |-> NoTok, hi |-> NoTok,
            sep |-> <<>>, tail |-> <<>>]
MinMax(prefix, lo, sep, hi, tail) ==
  [kind |-> "minmax", prefix |-> prefix, lo |-> lo, hi |-> hi, sep |-> sep, tail |-> tail]
\* op, the gap after it, the number
Comp(op, gap, num) ==
  [kind |-> "comp", prefix |-> <<op>>, lo |-> num, hi |-> NoTok, sep |-> gap, tail |-> <<>>]
FreeText(body) ==
  [kind |-> "text", prefix |-> body, lo |-> NoTok, hi |-> NoTok, sep |-> <<>>, tail |-> <<>>]
RangeText(r) ==
  CASE r.kind = "minmax" -> r.prefix \o r.lo.s \o r.sep \o r.hi.s \o r.tail
    [] r.kind = "comp" -> r.prefix \o r.sep \o r.lo.s
    [] r.kind = "text" -> r.prefix
    [] r.kind = "none" -> <<>>

Source(layout, name, value, unit, range, suffix) ==
  [layout |-> layout, name |-> name, value |-> value, unit |-> unit, range |-> range,
   suffix |-> suffix, lines |-> <<>>]
\* a text given line by line
Raw(lines) ==
  [layout |-> "raw", name |-> <<>>, value |-> NoTok, unit |-> <<>>, range |-> NoRange,
   suffix |-> <<>>, lines |-> lines]

RECURSIVE JoinLines(_, _)
JoinLines(lines, i) ==
  IF i > Len(lines) THEN <<>>
  ELSE IF i = Len(lines) THEN lines[i]
  ELSE lines[i] \o <<"\n">> \o JoinLines(lines, i + 1)
SP == <<" ">>
\* the text of a source
Render(src) ==
  CASE src.layout = "colon" ->
         src.name \o <<":", " ">> \o src.value.s
         \o (IF Len(src.unit) > 0 THEN SP \o src.unit ELSE <<>>)
         \o (IF src.range.kind # "none"
             THEN SP \o <<"(">> \o RangeText(src.range) \o <<")">> ELSE <<>>)
         \o src.suffix
    [] src.layout = "tabular" ->
         src.name \o SP \o src.value.s \o SP \o src.unit \o SP \o RangeText(src.range)
         \o src.suffix
    [] src.layout = "simple" ->
         src.name \o SP \o src.value.s \o SP \o src.unit \o src.suffix
    [] src.layout = "csv" ->
         src.name \o <<",">> \o src.value.s \o <<",">> \o src.unit
         \o (IF src.range.kind # "none" THEN <<",">> \o RangeText(src.range) ELSE <<>>)
         \o src.suffix
    [] src.layout = "raw" -> JoinLines(src.lines, 1)

NameAb == <<"a", "b">>
NameShort == <<"A">>
NameLowT == <<"L", "o", "w", " ", "T">>
NameAbbr == <<"H", "b", " ", "(", "A", "1", "C", ")">>
NameTest == <<"T", "e", "s", "t">>
NameTwoParens == <<"H", "b", " ", "(", "x", ")", " ", "(", "A", "1", "C", ")">>
Names == {NameAb, NameShort, NameLowT, NameAbbr, NameTest, NameTwoParens}
UnitMg == <<"m", "g">>
Values == {T0, T3, T5, T7, T9, TDot}
Dash == <<"-">>
SpacedEnDash == <<" ", EnDash, " ">>
Pairs == {<<T3, T7>>, <<T0, T0>>, <<T7, T3>>, <<T5, T5>>, <<T0, T5>>, <<T36, T100>>,
          <<TDot, T7>>, <<T5, T1000>>}
PlainRanges == {MinMax(<<>>, pr[1], Dash, pr[2], <<>>) : pr \in Pairs}
NormalRangePrefix == <<"N","o","r","m","a","l"," ","r","a","n","g","e",":"," ">>
PrefixedRanges ==
  {MinMax(NormalRangePrefix, T3, Dash, T7, <<>>),
   MinMax(<<"r","a","n","g","e",":">>, T3, SpacedEnDash, T7, <<" ", "o", "k">>)}
Comparisons ==
  {Comp(op, gap, num) : op \in {"<", ">", LessEq, GreaterEq}, gap \in {<<>>, SP},
                        num \in {T5, T0}}
  \cup {Comp("<", <<>>, TDot)}
NotEstabText == FreeText(NOT_ESTAB)
OtherTexts == {FreeText(<<"a", "b", "c">>), FreeText(<<>>),
               FreeText(<<"R","e","f",":"," ","3","-","7">>)}
Suffixes == {<<>>, <<" ", "[", "H", "i", "g", "h", "]">>, <<" ", "l", "o", "w">>,
             <<" ">> \o <<"(">> \o NOT_ESTAB \o <<")">>}

ColonSources ==
  {Source("colon", NameAb, v, UnitMg, r, <<>>) :
     v \in Values,
     r \in PlainRanges \cup PrefixedRanges \cup Comparisons \cup OtherTexts
           \cup {NotEstabText, NoRange}}
  \cup
  {Source("colon", n, T5, u, r, x) :
     n \in Names, u \in {<<>>, UnitMg},
     r \in {MinMax(<<>>, T3, Dash, T7, <<>>), MinMax(<<>>, T0, Dash, T0, <<>>),
            Comp("<", <<>>, T5), NoRange},
     x \in Suffixes}
TabularSources ==
  {Source("tabular", NameAb, v, UnitMg, r, <<>>) :
     v \in Values,
     r \in PlainRanges \cup {MinMax(<<>>, T3, SpacedEnDash, T7, <<>>)} \cup Comparisons}
  \cup
  {Source("tabular", n, T5, <<"%">>, r, x) :
     n \in Names,
     r \in {MinMax(<<>>, T3, Dash, T7, <<>>), MinMax(<<>>, T0, Dash, T0, <<>>),
            Comp(">", SP, T5)},
     x \in Suffixes \cup {<<" ", "H", "i", "g", "h">>}}
SimpleSources ==
  {Source("simple", n, v, UnitMg, NoRange, x) :
     n \in Names, v \in {T5, T0, TDot, T1000}, x \in Suffixes}
CsvSources ==
  {Source("csv", n, v, UnitMg, r, x) :
     n \in {NameAb, NameAbbr}, v \in {T5, TDot},
     r \in {NoRange, MinMax(<<>>, T3, Dash, T7, <<>>), MinMax(<<>>, T3, <<",">>, T7, <<>>)},
     x \in {<<>>, <<",", "h", "i", "g", "h">>}}

\* lines that follow no layout
OddLines ==
  {<<"-", "-", "-", "-">>, <<"a", "b", "c">>, <<"a", " ", "b">>, <<".">>, <<"a", "b", " ", ".">>,
   <<":", " ", "5">>, <<"a", ":", ".", " ", "5", " ", "m", "g">>, <<"a", "b", " ", "5">>,
   <<"a", "b", ",", " ", "5">>, <<"a", "b", " ", ",">>, <<"a", "b", ":", " ", ",", " ", "m", "g">>,
   <<"a", "b", " ", "5", " ", "<", "7">>, <<"5">>, <<"a", "b", ":", "5", "m", "g", "(", "3", "-", "7", ")">>,
   <<"a", "b", " ", "5", " ", "[", "H", "i", "g", "h", "]">>}
\* the lines of the texts of several lines
TextLines ==
  {<<>>, <<" ", "\t">>, <<"T", "e", "s", "t", " ", "V", "a", "l", "u", "e">>,
   <<"a", "b", " ", "5", " ", "m", "g">>, <<" ", "a", "b", ":", " ", "7", " ", "(", "3", "-", "7", ")", "\r">>,
   <<"-", "-", "-", "-">>, <<"U", "n", "i", "t", " ", "5", " ", "m", "g", " ", "3", "-", "7">>}
MaxLines == 2
RawSources ==
  {Raw(<<l>>) : l \in OddLines}
  \cup UNION {{Raw(ls) : ls \in [1..k -> TextLines]} : k \in 1..MaxLines}

AllSettings ==
  [detectHeaders : BOOLEAN, skipEmptyLines : BOOLEAN]
\* the initial parseSettings of the component
DefaultSettings == [detectHeaders |-> TRUE, skipEmptyLines |-> TRUE]

\* the results searchTests may give: nothing, or the best library item
LibraryItems ==
  {[test_name |-> <<"H", "g", "b">>, abbreviation |-> StrV(<<"H", "G">>),
    test_code |-> StrV(<<"7", "1", "8">>), default_unit |-> <<"g", "/", "d", "L">>,
    category |-> StrV(<<"h", "e", "m">>)],
   [test_name |-> NameAb, abbreviation |-> Undefined, test_code |-> Undefined,
    default_unit |-> <<>>, category |-> StrV(<<"o", "t", "h", "e", "r">>)]}
SearchResults == {<<>>} \cup {<<item>> : item \in LibraryItems}

\* ---------------------------------------------------------------- state

\* One run of the parse the component makes of a text (the auto-parse
\* effect and handleManualParse): parseText, then enrichWithStandardizedTests
\* on its components.  stage is the position in that run.

VARIABLES
  src,              \* the source the text was written from
  text,             \* the text given to parseText
  parseSettings,
  stage,            \* "input", "parsed", "enriched"
  components,       \* the component list: of parseText, then of enrichment
  failedLineCount,
  patterns,         \* for each component, the pattern that made it
  before,           \* for each component, the component when its validation began
  outcomes,         \* for each line walked, what became of it
  runs,             \* the parses of the text made in the session
  edits,            \* the edits and removals made in the session
  first,            \* components and failedLineCount as the first parse set them
  searched,         \* the searches made: pairs of a test name and the result
  debouncedText,    \* useDebouncedValue(rawText, 300)
  parseMode,        \* "auto" or "manual"
  completedDate,
  extractedText,    \* the text extracted from an uploaded PDF
  activeTab,
  isSubmitting,
  pc,               \* the await at which handleSubmit stands: "idle", "put", "bulk"
  closure,          \* parsedComponents and the date as handleSubmit captured them
  calls,            \* the backend calls of the last submission, each with its
                    \* reply, and with its body while the reply is awaited
  effects,          \* the notifications shown and callbacks invoked by the last step
  moves             \* the inputs made to the form: text, mode, switches, tab, date

vars == <<src, text, parseSettings, stage, components, failedLineCount, patterns, before,
          outcomes, runs, edits, first, searched, debouncedText, parseMode, completedDate,
          extractedText, activeTab, isSubmitting, pc, closure, calls, effects, moves>>
\* the variables of the form apart from effects
form == <<debouncedText, parseMode, completedDate, extractedText, activeTab, isSubmitting,
          pc, closure, calls, moves>>
\* a Date or null: time is "past", "future" or "NaN" (an Invalid Date)
NoDate == [k |-> "null", time |-> "NaN"]
DateAt(time) == [k |-> "date", time |-> time]
NoClosure == [parsedComponents |-> <<>>, validatedDate |-> NoDate]
\* the useState initial values of the form
NoForm ==
  /\ debouncedText = <<>>
  /\ completedDate = NoDate
  /\ extractedText = <<>>
  /\ activeTab = "input"
  /\ isSubmitting = FALSE
  /\ pc = "idle"
  /\ closure = NoClosure
  /\ calls = <<>>
  /\ effects = {}
  /\ moves = 0
\* the variables of the session
session == <<runs, edits, first, searched>>
NoRun == [components |-> <<>>, failedLineCount |-> 0]
NoSession == runs = 0 /\ edits = 0 /\ first = NoRun /\ searched = {}

Init ==
  /\ \/ /\ src \in ColonSources \cup TabularSources \cup SimpleSources \cup CsvSources
        /\ parseSettings \in {DefaultSettings, [DefaultSettings EXCEPT !.detectHeaders = FALSE]}
     \/ /\ src \in RawSources
        /\ parseSettings \in AllSettings
  /\ text = Render(src)
  /\ stage = "input"
  /\ components = <<>>
  /\ failedLineCount = 0
  /\ patterns = <<>>
  /\ before = <<>>
  /\ outcomes = <<>>
  /\ NoSession
  /\ parseMode = "auto"
  /\ NoForm

\* const { components, failedLineCount } = parseText(text)
Parse ==
  /\ stage = "input"
  /\ \E r \in {parseText(text, parseSettings)} :
        /\ components' = r.components
        /\ failedLineCount' = r.failedLineCount
        /\ patterns' = r.patterns
        /\ before' = r.before
        /\ outcomes' = r.outcomes
  /\ stage' = "parsed"
  /\ UNCHANGED <<src, text, parseSettings, session, form, effects>>

\* const enriched = enrichWithStandardizedTests(components)
Enrich ==
  /\ stage = "parsed"
  /\ \E found \in [DOMAIN components -> SearchResults] :
       components' = enrichWithStandardizedTests(components, found)
  /\ stage' = "enriched"
  /\ UNCHANGED <<src, text, parseSettings, failedLineCount, patterns, before, outcomes,
                 session, form, effects>>

Next == Parse \/ Enrich

Spec == Init /\ [][Next]_vars

\* -------------------------------------------------------------- session

\* A session on the preview: the user parses the text with the Parse
\* button (handleManualParse), edits fields of the rows and removes rows,
\* and parses the same text again.

MaxRuns == 2
MaxEdits == 2
MaxMoves == 3

LineSimple == <<"a", "b", " ", "5", " ", "m", "g">>
LineColon == <<"H", "b", ":", " ", "7", " ", "(", "3", "-", "7", ")">>
LineNoise == <<"-", "-", "-", "-">>
SessionSources ==
  {Raw(<<LineSimple>>), Raw(<<LineColon>>), Raw(<<LineNoise, LineColon>>),
   Raw(<<LineSimple, LineNoise, LineSimple>>), Raw(<<LineColon, LineSimple>>), Raw(<<>>)}

\* the fields of a row that the preview lets the user edit, and the values
\* the inputs of the row send for them
EditableFields ==
  {"test_name", "value", "unit", "ref_range_min", "ref_range_max", "ref_range_text", "status"}
EditValues(field) ==
  CASE field = "test_name" -> {<<" ">>}
    [] field = "value" -> {NumV(9, 0), StrV(<<>>)}
    [] field = "unit" -> {<<>>, <<"g">>}
    [] field = "ref_range_min" -> {NumV(9, 0)}
    [] field = "ref_range_max" -> {NumV(3, 0)}
    [] field = "ref_range_text" -> {Null}
    [] field = "status" -> {StrV(HIGH)}

\* an edit after which the row is validated again
EditedComponentRevalidated(component, field, value) ==
  Validate([component EXCEPT ![field] = value])
\* { ...updated[index], [field]: value }
EditedComponent(component, field, value) ==
  [component EXCEPT ![field] = value]
\* the updater that handleComponentEdit gives to setParsedComponents
handleComponentEdit(prev, index, field, value) ==
  IF prev[index][field] = value THEN prev
  ELSE [prev EXCEPT ![index] = EditedComponent(prev[index], field, value)]
\* prev.filter((_, i) => i !== index)
handleComponentRemove(prev, index) ==
  SubSeq(prev, 1, index - 1) \o SubSeq(prev, index + 1, Len(prev))

\* a count that adds the failed lines of a parse to those of the last
SetFailedLineCountAdded(prev, failedCount) == prev + failedCount
\* setFailedLineCount(failedCount)
SetFailedLineCount(prev, failedCount) == failedCount

\* searchTests gives the same result for the same name: found agrees with
\* the searches made before and with itself
SameSearch(parsed, found) ==
  /\ \A i \in DOMAIN parsed : \A pair \in searched :
       pair[1] = parsed[i].test_name => found[i] = pair[2]
  /\ \A i, j \in DOMAIN parsed :
       parsed[i].test_name = parsed[j].test_name => found[i] = found[j]

\* the effect on failedLineCount and parsedComponents.length: it runs when
\* one of them has changed in the step, and notifies as it finds them
FailedLinesNotice(count, length, newCount, newLength) ==
  IF (newCount # count \/ newLength # length) /\ newCount > 0 /\ newLength > 0
  THEN {"Some Lines Could Not Be Parsed"} ELSE {}
Noticed ==
  FailedLinesNotice(failedLineCount, Len(components), failedLineCount', Len(components'))

\* parseText(t), setFailedLineCount, enrichWithStandardizedTests,
\* setParsedComponents: the parse that the Parse button, the auto-parse
\* effect and the PDF tab make
ParseInto(t, settings) ==
  \E r \in {parseText(t, settings)} :
    /\ failedLineCount' = SetFailedLineCount(failedLineCount, r.failedLineCount)
    /\ patterns' = r.patterns
    /\ before' = r.before
    /\ outcomes' = r.outcomes
    /\ \E found \in [DOMAIN r.components -> SearchResults] :
         /\ SameSearch(r.components, found)
         /\ components' = enrichWithStandardizedTests(r.components, found)
         /\ searched' = searched \cup
              {<<r.components[i].test_name, found[i]>> : i \in DOMAIN r.components}

\* handleManualParse, of the Parse Text button that manual mode shows:
\* nothing but a notification for a blank text, else the parse
ManualParse ==
  /\ parseMode = "manual"
  /\ ~isSubmitting
  /\ runs < MaxRuns
  /\ IF Trim(text) = <<>>
     THEN /\ effects' = {"No Text to Parse"}
          /\ stage' = "blank"
          /\ UNCHANGED <<components, failedLineCount, patterns, before, outcomes, searched,
                         first, runs>>
     ELSE /\ ParseInto(text, parseSettings)
          /\ first' = IF runs = 0
                      THEN [components |-> components', failedLineCount |-> failedLineCount']
                      ELSE first
          /\ runs' = runs + 1
          /\ effects' = Noticed \cup {"Text Parsed"}
          /\ stage' = "enriched"
  /\ UNCHANGED <<src, text, parseSettings, edits, form>>

\* handleComponentEdit(index, field, value) from a row of the preview
Edit ==
  /\ ~isSubmitting
  /\ edits < MaxEdits
  /\ \E index \in DOMAIN components, field \in EditableFields :
       \E value \in EditValues(field) :
         components' = handleComponentEdit(components, index, field, value)
  /\ stage' = "edited"
  /\ edits' = edits + 1
  /\ effects' = {}
  /\ UNCHANGED <<src, text, parseSettings, failedLineCount, patterns, before, outcomes,
                 runs, first, searched, form>>

\* handleComponentRemove(index) from a row of the preview
Remove ==
  /\ ~isSubmitting
  /\ edits < MaxEdits
  /\ \E index \in DOMAIN components :
       components' = handleComponentRemove(components, index)
  /\ stage' = "removed"
  /\ edits' = edits + 1
  /\ effects' = FailedLinesNotice(failedLineCount, Len(components), failedLineCount,
                                  Len(components'))
  /\ UNCHANGED <<src, text, parseSettings, failedLineCount, patterns, before, outcomes,
                 runs, first, searched, form>>

SessionInit ==
  /\ src \in SessionSources
  /\ parseSettings = DefaultSettings
  /\ text = Render(src)
  /\ stage = "input"
  /\ components = <<>>
  /\ failedLineCount = 0
  /\ patterns = <<>>
  /\ before = <<>>
  /\ outcomes = <<>>
  /\ NoSession
  /\ parseMode = "manual"
  /\ NoForm

SessionNext == ManualParse \/ Edit \/ Remove

Session == SessionInit /\ [][SessionNext]_vars

\* ----------------------------------------------------------------- form

\* The bulk entry form: the text is typed and parsed, by the auto-parse
\* effect on the debounced text or by the buttons, the rows of the preview
\* are edited and removed, and handleSubmit sends them to the backend in
\* two calls, each an await at which the submission stands.  While
\* isSubmitting is set the overlay covers the form, so that only the
\* debounce timer and the replies of the backend act.  The PDF tab is not
\* modelled, apart from the Invalid Date that its metadata may leave in
\* completedDate and the extractedText that Clear All resets.

\* the texts typed into the textarea
FormTexts ==
  {<<>>, <<" ">>, Render(Raw(<<LineNoise>>)), Render(Raw(<<LineNoise, LineSimple>>))}
\* the dates the DateInput sends
PickedDates == {NoDate, DateAt("past"), DateAt("future")}
\* the switches of the settings tab: one that parseText reads and one of
\* those that it does not
Switches == {"detectHeaders", "caseSensitive"}

\* getValidatedDate(value), value a Date or null
getValidatedDate(value) ==
  IF value.k = "null" THEN NoDate
  ELSE IF value.time = "NaN" THEN NoDate
  ELSE value

\* x || null
OrNull(x) == IF Falsy(x) THEN Null ELSE x
Ratio == <<"r", "a", "t", "i", "o">>
\* comp.value !== null && comp.test_name.trim()
Kept(comp) == comp.value # Null /\ Len(Trim(comp.test_name)) > 0
validComponents(parsedComponents) == SelectSeq(parsedComponents, Kept)
\* the callback of .map((comp, index) => ...), index counted from 0
Created(comp, index) ==
  [lab_result_id |-> "labResultId", test_name |-> comp.test_name,
   abbreviation |-> OrNull(comp.abbreviation),
   canonical_test_name |-> OrNull(comp.canonical_test_name), test_code |-> Null,
   value |-> comp.value,
   unit |-> IF Len(Trim(comp.unit)) = 0 THEN Ratio ELSE Trim(comp.unit),
   ref_range_min |-> comp.ref_range_min, ref_range_max |-> comp.ref_range_max,
   ref_range_text |-> OrNull(comp.ref_range_text), status |-> OrNull(comp.status),
   category |-> OrNull(comp.category), display_order |-> index + 1,
   notes |-> IF Len(comp.issues) > 0 THEN <<"Parsing notes">> \o comp.issues ELSE <<>>]
\* parsedComponents.filter(...).map(...)
MapCreated(kept) == [k \in DOMAIN kept |-> Created(kept[k], k - 1)]
componentsToCreate(parsedComponents) ==
  MapCreated(SelectSeq(parsedComponents, Kept))

\* the body of the auto-parse effect for a debounced text, a mode and the
\* parseText of the settings
AutoParseEffectAnyMode(debounced, mode, settings) ==
  IF Trim(debounced) # <<>>
  THEN ParseInto(debounced, settings)
  ELSE /\ components' = <<>>
       /\ failedLineCount' = 0
       /\ UNCHANGED <<patterns, before, outcomes, searched>>
AutoParseEffect(debounced, mode, settings) ==
  IF mode = "auto" /\ Trim(debounced) # <<>>
  THEN ParseInto(debounced, settings)
  ELSE IF mode = "auto"
  THEN /\ components' = <<>>
       /\ failedLineCount' = 0
       /\ UNCHANGED <<patterns, before, outcomes, searched>>
  ELSE UNCHANGED <<components, failedLineCount, patterns, before, outcomes, searched>>

\* the textarea's onChange and the Use Example button: setRawText
SetRawText ==
  /\ ~isSubmitting
  /\ moves < MaxMoves
  /\ \E t \in FormTexts \ {text} : text' = t
  /\ stage' = "typed"
  /\ effects' = {}
  /\ moves' = moves + 1
  /\ UNCHANGED <<src, parseSettings, components, failedLineCount, patterns, before,
                 outcomes, session, debouncedText, parseMode, completedDate, extractedText,
                 activeTab, isSubmitting, pc, closure, calls>>

\* the debounce delay has passed since the last change of the text:
\* debouncedText takes it and the auto-parse effect runs
Debounce ==
  /\ debouncedText # text
  /\ debouncedText' = text
  /\ AutoParseEffect(text, parseMode, parseSettings)
  /\ stage' = "debounced"
  /\ effects' = Noticed
  /\ UNCHANGED <<src, text, parseSettings, runs, edits, first, parseMode, completedDate,
                 extractedText, activeTab, isSubmitting, pc, closure, calls, moves>>

\* the Select of the parse mode: setParseMode, and the auto-parse effect runs
SetParseMode ==
  /\ ~isSubmitting
  /\ moves < MaxMoves
  /\ \E mode \in {"auto", "manual"} \ {parseMode} :
       /\ parseMode' = mode
       /\ AutoParseEffect(debouncedText, mode, parseSettings)
  /\ stage' = "mode"
  /\ effects' = Noticed
  /\ moves' = moves + 1
  /\ UNCHANGED <<src, text, parseSettings, runs, edits, first, debouncedText, completedDate,
                 extractedText, activeTab, isSubmitting, pc, closure, calls>>

\* a Switch of the settings tab: setParseSettings makes a new parseText,
\* and the auto-parse effect runs
ToggleSetting ==
  /\ ~isSubmitting
  /\ moves < MaxMoves
  /\ \E switch \in Switches :
       /\ parseSettings' = IF switch \in DOMAIN parseSettings
                           THEN [parseSettings EXCEPT ![switch] = ~@]
                           ELSE parseSettings
       /\ AutoParseEffect(debouncedText, parseMode, parseSettings')
  /\ stage' = "toggled"
  /\ effects' = Noticed
  /\ moves' = moves + 1
  /\ UNCHANGED <<src, text, runs, edits, first, debouncedText, parseMode, completedDate,
                 extractedText, activeTab, isSubmitting, pc, closure, calls>>

\* the Tabs' onChange: setActiveTab
SetActiveTab ==
  /\ ~isSubmitting
  /\ moves < MaxMoves
  /\ \E tab \in {"input", "preview"} \ {activeTab} : activeTab' = tab
  /\ stage' = "tab"
  /\ effects' = {}
  /\ moves' = moves + 1
  /\ UNCHANGED <<src, text, parseSettings, components, failedLineCount, patterns, before,
                 outcomes, session, debouncedText, parseMode, completedDate, extractedText,
                 isSubmitting, pc, closure, calls>>

\* the DateInput's onChange: setCompletedDate
SetCompletedDate ==
  /\ ~isSubmitting
  /\ moves < MaxMoves
  /\ \E date \in PickedDates \ {completedDate} : completedDate' = date
  /\ stage' = "dated"
  /\ effects' = {}
  /\ moves' = moves + 1
  /\ UNCHANGED <<src, text, parseSettings, components, failedLineCount, patterns, before,
                 outcomes, session, debouncedText, parseMode, extractedText, activeTab,
                 isSubmitting, pc, closure, calls>>

\* the Clear All button
ClearAll ==
  /\ ~isSubmitting
  /\ moves < MaxMoves
  /\ text' = <<>>
  /\ components' = <<>>
  /\ extractedText' = <<>>
  /\ stage' = "cleared"
  /\ effects' = {}
  /\ moves' = moves + 1
  /\ UNCHANGED <<src, parseSettings, failedLineCount, patterns, before, outcomes, session,
                 debouncedText, parseMode, completedDate, activeTab, isSubmitting, pc,
                 closure, calls>>

\* a guard of handleSubmit that returns after its notification
Refused(title) ==
  /\ effects' = {title}
  /\ stage' = "refused"
  /\ UNCHANGED <<text, components, form>>
\* the first call is sent although the date is no valid past date
SentUnguarded(date) ==
  /\ isSubmitting' = TRUE
  /\ pc' = "put"
  /\ closure' = [parsedComponents |-> components, validatedDate |-> date]
  /\ calls' = <<[call |-> "put", body |-> <<date.time>>, reply |-> "pending"]>>
  /\ effects' = {}
  /\ stage' = "submitted"
  /\ UNCHANGED <<text, components, debouncedText, parseMode, completedDate, extractedText,
                 activeTab, moves>>
\* setIsSubmitting(true) and the update of the lab result's completed_date
Sent(date) ==
  IF date = NoDate THEN Refused("Date Required")
  ELSE IF date.time = "future" THEN Refused("Invalid Date")
  ELSE SentUnguarded(date)
\* handleSubmit up to its first await, whenever it is called: its first
\* guard covers the empty list, for which the button is disabled as well
Submit ==
  /\ pc = "idle"
  /\ IF Len(components) = 0 THEN Refused("No Components to Add")
     ELSE Sent(getValidatedDate(completedDate))
  /\ UNCHANGED <<src, parseSettings, failedLineCount, patterns, before, outcomes, session>>

\* the entry of a call when its reply has come
Replied(call, reply) == [call EXCEPT !.reply = reply, !.body = <<>>]
\* catch and finally of handleSubmit, call k having failed
Failed(k) ==
  /\ calls' = [calls EXCEPT ![k] = Replied(@, "failed")]
  /\ effects' = {"onError", "Error"}
  /\ isSubmitting' = FALSE
  /\ pc' = "idle"
  /\ closure' = NoClosure
  /\ stage' = "failed"
  /\ UNCHANGED <<text, components, debouncedText, parseMode, completedDate, extractedText,
                 activeTab, moves>>
\* the bulk create is sent whatever the reply to the update was
BulkSentAnyway(ok) ==
  /\ calls' = <<Replied(calls[1], IF ok THEN "ok" ELSE "failed"),
                [call |-> "bulk", body |-> componentsToCreate(closure.parsedComponents),
                 reply |-> "pending"]>>
  /\ pc' = "bulk"
  /\ effects' = {"onLabResultUpdated"}
  /\ stage' = "updated"
  /\ UNCHANGED <<text, components, debouncedText, parseMode, completedDate, extractedText,
                 activeTab, isSubmitting, closure, moves>>
\* after the update: onLabResultUpdated, componentsToCreate from the
\* parsedComponents of the closure, and the bulk create
BulkSent(ok) ==
  IF ok
  THEN /\ calls' = <<Replied(calls[1], "ok"),
                     [call |-> "bulk", body |-> componentsToCreate(closure.parsedComponents),
                      reply |-> "pending"]>>
       /\ pc' = "bulk"
       /\ effects' = {"onLabResultUpdated"}
       /\ stage' = "updated"
       /\ UNCHANGED <<text, components, debouncedText, parseMode, completedDate,
                      extractedText, activeTab, isSubmitting, closure, moves>>
  ELSE Failed(1)
\* the reply to the update of the lab result arrives
PutReplied ==
  /\ pc = "put"
  /\ \E ok \in BOOLEAN : BulkSent(ok)
  /\ UNCHANGED <<src, parseSettings, failedLineCount, patterns, before, outcomes, session>>

\* the form is reset whatever the reply to the bulk create was
SettledResetAlways(ok) ==
  /\ calls' = [calls EXCEPT ![2] = Replied(@, IF ok THEN "ok" ELSE "failed")]
  /\ effects' = IF ok THEN {"Success!", "onComponentsAdded"} ELSE {"onError", "Error"}
  /\ text' = <<>>
  /\ components' = <<>>
  /\ completedDate' = NoDate
  /\ isSubmitting' = FALSE
  /\ pc' = "idle"
  /\ closure' = NoClosure
  /\ stage' = IF ok THEN "created" ELSE "failed"
  /\ UNCHANGED <<debouncedText, parseMode, extractedText, activeTab, moves>>
\* isSubmitting is left set after a failed bulk create
SettledStuck(ok) ==
  IF ok
  THEN /\ calls' = [calls EXCEPT ![2] = Replied(@, "ok")]
       /\ effects' = {"Success!", "onComponentsAdded"}
       /\ text' = <<>>
       /\ components' = <<>>
       /\ completedDate' = NoDate
       /\ isSubmitting' = FALSE
       /\ pc' = "idle"
       /\ closure' = NoClosure
       /\ stage' = "created"
       /\ UNCHANGED <<debouncedText, parseMode, extractedText, activeTab, moves>>
  ELSE /\ calls' = [calls EXCEPT ![2] = Replied(@, "failed")]
       /\ effects' = {"onError", "Error"}
       /\ pc' = "idle"
       /\ closure' = NoClosure
       /\ stage' = "failed"
       /\ UNCHANGED <<text, components, debouncedText, parseMode, completedDate,
                      extractedText, activeTab, isSubmitting, moves>>
\* after the bulk create: the notification, onComponentsAdded and the
\* reset of the form, then finally
Settled(ok) ==
  IF ok
  THEN /\ calls' = [calls EXCEPT ![2] = Replied(@, "ok")]
       /\ effects' = {"Success!", "onComponentsAdded"}
       /\ text' = <<>>
       /\ components' = <<>>
       /\ completedDate' = NoDate
       /\ isSubmitting' = FALSE
       /\ pc' = "idle"
       /\ closure' = NoClosure
       /\ stage' = "created"
       /\ UNCHANGED <<debouncedText, parseMode, extractedText, activeTab, moves>>
  ELSE Failed(2)
\* the reply to the bulk create arrives
BulkReplied ==
  /\ pc = "bulk"
  /\ \E ok \in BOOLEAN : Settled(ok)
  /\ UNCHANGED <<src, parseSettings, failedLineCount, patterns, before, outcomes, session>>

\* the form as constructed
FormInit ==
  /\ src = Raw(<<>>)
  /\ parseSettings = DefaultSettings
  /\ text = <<>>
  /\ stage = "input"
  /\ components = <<>>
  /\ failedLineCount = 0
  /\ patterns = <<>>
  /\ before = <<>>
  /\ outcomes = <<>>
  /\ NoSession
  /\ parseMode = "auto"
  /\ NoForm

FormNext ==
  \/ SetRawText \/ Debounce \/ SetParseMode \/ ToggleSetting \/ ManualParse \/ Remove
  \/ SetActiveTab \/ SetCompletedDate \/ ClearAll \/ Submit \/ PutReplied \/ BulkReplied

Form == FormInit /\ [][FormNext]_vars

\* ----------------------------------------------------------- submission

\* The preview is filled from a text by the Parse Text button, its rows
\* are edited and removed, and the list is submitted, whatever the date.

SubmissionTexts == {Render(Raw(<<LineSimple, LineSimple>>))}
\* the dates the form may hold: of the DateInput, and new Date(test_date)
\* of a PDF's metadata, which may be an Invalid Date
HeldDates == PickedDates \cup {DateAt("NaN")}

SubmissionInit ==
  /\ src = Raw(<<>>)
  /\ parseSettings = DefaultSettings
  /\ text \in SubmissionTexts
  /\ stage = "input"
  /\ components = <<>>
  /\ failedLineCount = 0
  /\ patterns = <<>>
  /\ before = <<>>
  /\ outcomes = <<>>
  /\ NoSession
  /\ parseMode = "manual"
  /\ debouncedText = text
  /\ completedDate \in HeldDates
  /\ extractedText = <<>>
  /\ activeTab = "input"
  /\ isSubmitting = FALSE
  /\ pc = "idle"
  /\ closure = NoClosure
  /\ calls = <<>>
  /\ effects = {}
  /\ moves = 0

SubmissionNext ==
  ManualParse \/ Remove \/ Debounce \/ Submit \/ PutReplied \/ BulkReplied

Submission == SubmissionInit /\ [][SubmissionNext]_vars

\* ---------------------------------------------------------------- preview

\* The rows of the preview are edited and removed before the list is
\* submitted with a date that handleSubmit lets pass.

PreviewInit ==
  /\ SubmissionInit
  /\ completedDate = DateAt("past")

PreviewNext ==
  ManualParse \/ Edit \/ Remove \/ Submit \/ PutReplied \/ BulkReplied

Preview == PreviewInit /\ [][PreviewNext]_vars

\* ------------------------------------------------------------ parseLine

\* The helper of the parser tests: the fields of the first pattern that
\* gives a record for the line, or null.

\* the object literal of the result
NewResult(patternName, testName, value, unit) ==
  [patternName |-> patternName, test_name |-> testName, value |-> value, unit |-> unit,
   ref_range_min |-> Null, ref_range_max |-> Null, ref_range_text |-> Null,
   status |-> Null]
\* "Parse reference range"
ResultMinMax(result, rangeMin, rangeMax) ==
  IF ~IsNaN(rangeMin) /\ ~IsNaN(rangeMax)
  THEN [result EXCEPT !.ref_range_min = rangeMin, !.ref_range_max = rangeMax]
  ELSE result
ResultBound(result, op, num) ==
  IF IsNaN(num) THEN result
  ELSE IF op \in {"<", LessEq} THEN [result EXCEPT !.ref_range_max = num]
  ELSE IF op \in {">", GreaterEq} THEN [result EXCEPT !.ref_range_min = num]
  ELSE result
ResultCompMatch(result, compText, compMatch) ==
  IF compMatch.ok
  THEN ResultBound(result, Group(compText, compMatch, 1)[1],
                   ParseFloat(RemoveAll(Group(compText, compMatch, 2), {","})))
  ELSE result
ResultRange(result, line, m) ==
  IF Len(Group(line, m, 4)) > 0 /\ Len(Group(line, m, 5)) > 0
  THEN ResultMinMax(result, ParseFloat(RemoveAll(Group(line, m, 4), {","})),
                            ParseFloat(RemoveAll(Group(line, m, 5), {","})))
  ELSE IF Len(Group(line, m, 6)) > 0
  THEN ResultCompMatch([result EXCEPT !.ref_range_text = StrV(Trim(Group(line, m, 6)))],
                       Trim(Group(line, m, 6)),
                       Match(Trim(Group(line, m, 6)), CompMatchRe))
  ELSE result
\* "Auto-calculate status"
ResultStatus(result) ==
  IF result.value # Null
  THEN IF IsNum(result.ref_range_min) /\ IsNum(result.ref_range_max)
       THEN IF NumGreater(result.value, result.ref_range_max)
            THEN [result EXCEPT !.status = StrV(HIGH)]
            ELSE IF NumLess(result.value, result.ref_range_min)
            THEN [result EXCEPT !.status = StrV(LOW)]
            ELSE [result EXCEPT !.status = StrV(NORMAL)]
       ELSE IF IsNum(result.ref_range_max)
       THEN [result EXCEPT !.status =
               IF NumGreater(result.value, result.ref_range_max)
               THEN StrV(HIGH) ELSE StrV(NORMAL)]
       ELSE IF IsNum(result.ref_range_min)
       THEN [result EXCEPT !.status =
               IF NumLess(result.value, result.ref_range_min)
               THEN StrV(LOW) ELSE StrV(NORMAL)]
       ELSE result
  ELSE result
\* the body of the loop from the value on
ResultFromValue(line, patternName, match, testName, value, unit) ==
  IF IsNaN(value) THEN NoRecord
  ELSE [ok |-> TRUE,
        parsed |-> ResultStatus(ResultRange(NewResult(patternName, testName, value, unit),
                                            line, match))]
\* "if (!testName || !valueStr) continue"
ResultFromFields(line, patternName, match, testName, valueStr, unit) ==
  IF Len(testName) = 0 \/ Len(valueStr) = 0 THEN NoRecord
  ELSE ResultFromValue(line, patternName, match, testName, ParseFloat(valueStr), unit)
ResultFromMatch(line, patternName, match) ==
  IF ~match.ok THEN NoRecord
  ELSE ResultFromFields(line, patternName, match,
                        ReplaceFirst(Trim(Group(line, match, 1)), TrailingPunct),
                        RemoveAll(Group(line, match, 2), {","}),
                        Trim(Group(line, match, 3)))
\* for (const [patternName, pattern] of Object.entries(REGEX_PATTERNS))
RECURSIVE ResultLoop(_, _)
ResultLoop(trimmedLine, i) ==
  IF i > Len(PatternNames) THEN NoRecord
  ELSE OrElse(ResultFromMatch(trimmedLine, PatternNames[i],
                              Match(trimmedLine, PatternOf(PatternNames[i]))),
              ResultLoop(trimmedLine, i + 1))
\* parseLine(line): ok is FALSE for null
parseLine(line) == ResultLoop(Trim(line), 1)

\* ----------------------------------------------------------- properties

\* a <= b on numbers
NumLeq(a, b) == ~NumLess(b, a)
\* the lines of the text, as the source was written
SourceLines == IF src.layout = "raw" THEN src.lines ELSE <<Render(src)>>
IsBlank(line) == \A i \in DOMAIN line : line[i] \in Space
HasDigit(line) == \E i \in DOMAIN line : line[i] \in Digit
\* the lines that survive the blank filter of skipEmptyLines
Surviving ==
  IF parseSettings.skipEmptyLines
  THEN SelectSeq(SourceLines, LAMBDA line : ~IsBlank(line))
  ELSE SourceLines
CountOf(kind) == Cardinality({i \in DOMAIN outcomes : outcomes[i] = kind})
\* the text was one line and that line gave one record, made by pattern p
OneRecordBy(p) ==
  stage = "parsed" /\ Len(SourceLines) = 1 /\ Len(components) = 1 /\ patterns = <<p>>
\* a status was read from the line itself, in brackets or as a bare word
ExplicitStatus(line) ==
  Match(line, BracketStatusRe).ok \/ Match(line, WordStatusRe).ok

\* C1: a line written in the colon layout Name: value unit (min-max) and
\* matched by the colon pattern gives a record with ref_range_min = min,
\* ref_range_max = max, and status 'normal' exactly when min <= value <= max,
\* whatever the name and whatever precedes the numbers inside the parentheses
C1_ColonRangeStatus ==
  (/\ OneRecordBy("fullPattern")
   /\ src.layout = "colon" /\ src.range.kind = "minmax" /\ src.suffix = <<>>
   /\ IsNum(src.range.lo.n) /\ IsNum(src.range.hi.n))
  => /\ components[1].ref_range_min = src.range.lo.n
     /\ components[1].ref_range_max = src.range.hi.n
     /\ (components[1].status = StrV(NORMAL))
          <=> (NumLeq(src.range.lo.n, src.value.n) /\ NumLeq(src.value.n, src.range.hi.n))

\* the rules of the auto-derived status of a record r
DerivedByRules(r) ==
  /\ (IsNum(r.ref_range_min) /\ IsNum(r.ref_range_max))
       => r.status = StrV(IF NumGreater(r.value, r.ref_range_max) THEN HIGH
                          ELSE IF NumLess(r.value, r.ref_range_min) THEN LOW
                          ELSE NORMAL)
  /\ (~IsNum(r.ref_range_min) /\ IsNum(r.ref_range_max))
       => r.status = StrV(IF NumGreater(r.value, r.ref_range_max) THEN HIGH ELSE NORMAL)
  /\ (IsNum(r.ref_range_min) /\ ~IsNum(r.ref_range_max))
       => r.status = StrV(IF NumLess(r.value, r.ref_range_min) THEN LOW ELSE NORMAL)
  /\ (~IsNum(r.ref_range_min) /\ ~IsNum(r.ref_range_max))
       => r.status = Undefined
OnBoundary(r) == r.value = r.ref_range_min \/ r.value = r.ref_range_max
\* the bounds of r are not a minimum above a maximum
Ordered(r) ==
  (IsNum(r.ref_range_min) /\ IsNum(r.ref_range_max))
    => NumLeq(r.ref_range_min, r.ref_range_max)

\* C2 as stated: without an explicit status in the line the status follows
\* the derivation rules, and a value equal to min or to max is 'normal'
C2_BoundaryAlwaysNormal ==
  stage = "parsed" =>
    \A i \in DOMAIN components :
      ~ExplicitStatus(components[i].original_line)
        => /\ DerivedByRules(components[i])
           /\ OnBoundary(components[i]) => components[i].status = StrV(NORMAL)

\* C2: without an explicit status in the line the status follows the
\* derivation rules (both bounds: above max 'high', else below min 'low',
\* else 'normal'; one bound: outside it 'high' or 'low', else 'normal'; no
\* bound: unset), and a value equal to min or to max is 'normal' provided
\* min <= max
C2_AutoStatus ==
  stage = "parsed" =>
    \A i \in DOMAIN components :
      ~ExplicitStatus(components[i].original_line)
        => /\ DerivedByRules(components[i])
           /\ (OnBoundary(components[i]) /\ Ordered(components[i]))
                => components[i].status = StrV(NORMAL)

\* a record without explicit status whose value sits on the maximum of a
\* proper range and is 'normal'
C2_Witness ==
  /\ stage = "parsed"
  /\ \E i \in DOMAIN components :
       /\ ~ExplicitStatus(components[i].original_line)
       /\ IsNum(components[i].ref_range_min) /\ IsNum(components[i].ref_range_max)
       /\ NumLess(components[i].ref_range_min, components[i].ref_range_max)
       /\ components[i].value = components[i].ref_range_max
       /\ components[i].status = StrV(NORMAL)

\* C3: a range written as a comparison (<, >, <= or >= and a number), in the
\* colon and in the tabular layout, sets exactly one bound (< and <= the
\* maximum, > and >= the minimum), leaves the other unset and keeps the
\* comparison text as written in ref_range_text
C3_ComparisonBound ==
  (/\ stage = "parsed" /\ Len(components) = 1
   /\ src.layout \in {"colon", "tabular"} /\ src.range.kind = "comp"
   /\ IsNum(src.range.lo.n)
   /\ patterns[1] \in {"fullPattern", "tabularPattern"})
  => /\ components[1].ref_range_text = StrV(RangeText(src.range))
     /\ src.range.prefix[1] \in {"<", LessEq}
          => /\ components[1].ref_range_max = src.range.lo.n
             /\ components[1].ref_range_min = Undefined
     /\ src.range.prefix[1] \in {">", GreaterEq}
          => /\ components[1].ref_range_min = src.range.lo.n
             /\ components[1].ref_range_max = Undefined

\* a colon line with a range (<= n) that set the maximum alone
C3_Witness ==
  /\ OneRecordBy("fullPattern")
  /\ src.layout = "colon" /\ src.range.kind = "comp" /\ src.range.prefix = <<LessEq>>
  /\ components[1].ref_range_max = src.range.lo.n
  /\ components[1].ref_range_min = Undefined
  /\ components[1].ref_range_text = StrV(RangeText(src.range))

\* the three shapes a record's range may take
RangeShape(r) ==
  \/ r.ref_range_min # Undefined /\ r.ref_range_max # Undefined /\ r.ref_range_text = Undefined
  \/ r.ref_range_text # Undefined
       /\ (r.ref_range_min = Undefined \/ r.ref_range_max = Undefined)
  \/ r.ref_range_min = Undefined /\ r.ref_range_max = Undefined /\ r.ref_range_text = Undefined

\* C4: every record of parseText, and of the enrichment after it, has both
\* bounds and no range text, or a range text with at most one bound, or
\* none of the three: never both bounds together with a range text
C4_RangeShape ==
  stage \in {"parsed", "enriched"} =>
    \A i \in DOMAIN components : RangeShape(components[i])

\* the value a regular expression captures in the line is no number: it
\* does not match, or parseFloat of its second group is NaN
Unparsed(line, re) ==
  \/ ~Match(line, re).ok
  \/ IsNaN(ParseFloat(RemoveAll(Group(line, Match(line, re), 2), {","})))
\* no pattern and no fallback finds a number for the value of the line
NoNumber(line) ==
  /\ \A i \in DOMAIN PatternNames : Unparsed(line, PatternOf(PatternNames[i]))
  /\ Unparsed(line, FallbackRe)

\* C5: every record returned by parseText has a number as its value, and a
\* line whose value is parsed as a number by no pattern and not by the
\* fallback gives no record and is counted in failedLineCount
C5_NumericValue ==
  stage = "parsed" =>
    /\ \A i \in DOMAIN components : IsNum(components[i].value)
    /\ Len(outcomes) = Len(Surviving)
    /\ \A i \in DOMAIN Surviving :
         (outcomes[i] \notin {"blank", "header"} /\ NoNumber(Trim(Surviving[i])))
           => outcomes[i] = "failed"
    /\ failedLineCount = CountOf("failed")
    /\ Len(components) = CountOf("record")

\* a line with "." in its value column, parsed: no record, one failed line
C5_Witness ==
  /\ stage = "parsed" /\ src.layout = "tabular" /\ src.value = TDot
  /\ NoNumber(text)
  /\ components = <<>> /\ failedLineCount = 1

\* the record the pattern named p alone gives for the line
RecordBy(line, p) == Validate(TryPattern(line, p).parsed)
\* the place of the first pattern, in the order of the table, that gives a
\* record for the line; 0 when none does
FirstPattern(line) ==
  IF \A i \in DOMAIN PatternNames : ~TryPattern(line, PatternNames[i]).ok THEN 0
  ELSE CHOOSE i \in DOMAIN PatternNames :
         /\ TryPattern(line, PatternNames[i]).ok
         /\ \A j \in 1..(i - 1) : ~TryPattern(line, PatternNames[j]).ok

\* C6: the patterns are tried in the order colon, tabular, simple, CSV; the
\* first that matches with a name and a number for the value gives the whole
\* record, and a pattern that matches with a value that is no number counts
\* as no match, so that the next one is tried
C6_PatternOrder ==
  (stage = "parsed" /\ Len(SourceLines) = 1 /\ outcomes \in {<<"record">>, <<"failed">>})
  => /\ FirstPattern(Trim(text)) # 0
          => /\ patterns = <<PatternNames[FirstPattern(Trim(text))]>>
             /\ components = <<RecordBy(Trim(text), PatternNames[FirstPattern(Trim(text))])>>
     /\ FirstPattern(Trim(text)) = 0
          => (components = <<>> \/ patterns = <<"fallback">>)
     /\ \A i \in DOMAIN PatternNames :
          (Match(Trim(text), PatternOf(PatternNames[i])).ok
             /\ Unparsed(Trim(text), PatternOf(PatternNames[i])))
            => patterns # <<PatternNames[i]>>

\* a line the colon pattern matches with "." for the value, recorded by the
\* simple pattern, which comes later in the order
C6_Witness ==
  /\ OneRecordBy("simplePattern")
  /\ Match(Trim(text), FULL_PATTERN).ok
  /\ Unparsed(Trim(text), FULL_PATTERN)

\* C7: parseText ends for every text and all settings, and every line that
\* is not blank is a record, a failed line or the skipped header: records +
\* failedLineCount + (1 for a skipped header) = the count of non-blank lines
C7_EveryLineCounted ==
  stage = "parsed" =>
    /\ CountOf("header") <= 1
    /\ Len(components) + failedLineCount + CountOf("header")
         = Cardinality({i \in DOMAIN SourceLines : ~IsBlank(SourceLines[i])})

\* a text of a header line and a line of noise, with a blank line kept or
\* dropped: the header is skipped and the noise is the one failed line
C7_Witness ==
  /\ stage = "parsed" /\ Len(SourceLines) = 2
  /\ components = <<>> /\ failedLineCount = 1 /\ CountOf("header") = 1

\* C8: a line without any digit that is not skipped as the header gives no
\* record and adds exactly one to failedLineCount
C8_NoDigitFails ==
  stage = "parsed" =>
    /\ Len(outcomes) = Len(Surviving)
    /\ \A i \in DOMAIN Surviving :
         (~HasDigit(Surviving[i]) /\ ~IsBlank(Surviving[i]) /\ outcomes[i] # "header")
           => outcomes[i] = "failed"
    /\ failedLineCount = CountOf("failed")
    /\ Len(components) = CountOf("record")

\* the text "ab ." parsed: the fallback reads "." as the value, which is no
\* number, and the line is the one failed line
C8_Witness ==
  /\ stage = "parsed" /\ text = <<"a", "b", " ", ".">>
  /\ components = <<>> /\ failedLineCount = 1

\* C9: with detectHeaders, a first surviving line that holds a header
\* keyword gives no record and no failed line; no later line is skipped as
\* a header; without detectHeaders no line is
C9_HeaderFirstOnly ==
  stage = "parsed" =>
    /\ Len(outcomes) = Len(Surviving)
    /\ (parseSettings.detectHeaders /\ Len(Surviving) > 0 /\ IsHeader(Surviving[1]))
         => outcomes[1] = "header"
    /\ \A i \in DOMAIN outcomes :
         outcomes[i] = "header" => (i = 1 /\ parseSettings.detectHeaders)
    /\ Len(components) + failedLineCount
         = Cardinality({i \in DOMAIN outcomes : outcomes[i] \notin {"header", "blank"}})

\* a text whose second line holds a header keyword: that line is parsed
\* like any other and gives a record
C9_Witness ==
  /\ stage = "parsed" /\ parseSettings.detectHeaders
  /\ Len(Surviving) = 2 /\ IsHeader(Surviving[2]) /\ ~IsHeader(Surviving[1])
  /\ outcomes = <<"record", "record">>

\* C10: enrichment leaves the test_name of every record as it was, whatever
\* the library search gives; the library's name goes to canonical_test_name
C10_TestNameKept ==
  [][(stage = "parsed" /\ stage' = "enriched")
       => /\ Len(components') = Len(components)
          /\ \A i \in DOMAIN components :
               /\ components'[i].test_name = components[i].test_name
               /\ components'[i].canonical_test_name
                    \in {Undefined} \cup {StrV(item.test_name) : item \in LibraryItems}]_vars

\* an enriched record whose canonical name differs from its test_name
C10_Witness ==
  /\ stage = "enriched"
  /\ \E i \in DOMAIN components :
       /\ components[i].canonical_test_name # Undefined
       /\ components[i].canonical_test_name # StrV(components[i].test_name)

\* the library item the enrichment matched to the enriched record c
ItemOf(c) == CHOOSE item \in LibraryItems : StrV(item.test_name) = c.canonical_test_name
\* what enrichment may do to the record was to give the record now,
\* when the search matched item
FilledFrom(was, now, item) ==
  /\ now.abbreviation =
       (IF was.abbreviation = Undefined /\ item.abbreviation # Undefined
        THEN item.abbreviation ELSE was.abbreviation)
  /\ now.unit =
       (IF was.unit = <<>> /\ item.default_unit # <<>>
        THEN item.default_unit ELSE was.unit)
  /\ now.category =
       (IF item.category # Undefined THEN item.category ELSE was.category)
  /\ now.loinc_code =
       (IF item.test_code # Undefined THEN item.test_code ELSE was.loinc_code)

\* C11: when the library search matches, enrichment fills the abbreviation
\* only of a record that has none and the unit only of a record whose unit
\* is empty, and sets category and loinc_code to the library's values
\* whenever the item has them
C11_FillOnlyMissing ==
  [][(stage = "parsed" /\ stage' = "enriched")
       => \A i \in DOMAIN components :
            IF components'[i].canonical_test_name = Undefined
            THEN components'[i] = components[i]
            ELSE FilledFrom(components[i], components'[i], ItemOf(components'[i]))]_vars

\* an enriched record that keeps the abbreviation and the unit read from
\* the text although the matched library item has others, and has the
\* item's category and code
C11_Witness ==
  /\ stage = "enriched"
  /\ \E i \in DOMAIN components :
       /\ components[i].canonical_test_name # Undefined
       /\ ItemOf(components[i]).abbreviation \notin {Undefined, components[i].abbreviation}
       /\ components[i].abbreviation # Undefined
       /\ components[i].unit \notin {<<>>, ItemOf(components[i]).default_unit}
       /\ components[i].category = ItemOf(components[i]).category
       /\ components[i].loinc_code = ItemOf(components[i]).test_code

\* the status word of the first match of re in the line, in lower case
StatusToken(line, re) == StrV(ToLowerCase(Group(line, Match(line, re), 1)))
\* the status the precedence gives the record r: the bracketed token of its
\* line, else the bare status word of its line, else the derived status
ByPrecedence(r) ==
  IF Match(r.original_line, BracketStatusRe).ok
  THEN r.status = StatusToken(r.original_line, BracketStatusRe)
  ELSE IF Match(r.original_line, WordStatusRe).ok
  THEN r.status = StatusToken(r.original_line, WordStatusRe)
  ELSE DerivedByRules(r)

\* C14 as stated: the status of every record is the bracketed status token
\* of its line, else the bare status word of its line, else the status
\* derived from value and range
C14_StatusOfEveryRecord ==
  stage = "parsed" => \A i \in DOMAIN components : ByPrecedence(components[i])

\* C14: the status of every record made by one of the four patterns is the
\* bracketed status token of its line, else the bare status word of its
\* line, else the status derived from value and range; a record of the
\* fallback has no status
C14_StatusPrecedence ==
  stage = "parsed" =>
    \A i \in DOMAIN components :
      IF patterns[i] = "fallback" THEN components[i].status = Undefined
      ELSE ByPrecedence(components[i])

\* a record of a line with the bare word Low in its name, a value inside
\* its range and [High] at its end: the status is 'high'
C14_Witness ==
  /\ OneRecordBy("fullPattern")
  /\ Match(text, BracketStatusRe).ok
  /\ StatusToken(text, WordStatusRe) = StrV(LOW)
  /\ IsNum(components[1].ref_range_min) /\ IsNum(components[1].ref_range_max)
  /\ NumLeq(components[1].ref_range_min, components[1].value)
  /\ NumLess(components[1].value, components[1].ref_range_max)
  /\ components[1].status = StrV(HIGH)

\* the issues a record of the fallback starts with
FallbackIssues == <<"Could not detect unit", "Could not detect reference range">>
\* r has no unit and no range
Bare(r) ==
  /\ r.unit = <<>>
  /\ r.ref_range_min = Undefined /\ r.ref_range_max = Undefined
  /\ r.ref_range_text = Undefined

\* C15: a record is made by the fallback only for a line for which none of
\* the four patterns gives a record; the fallback's record has an empty
\* unit, no range, confidence 0.2 and the two issues "Could not detect unit"
\* and "Could not detect reference range" when its validation begins, and
\* still has no unit, no range and those two issues first after it
C15_FallbackRecord ==
  stage = "parsed" =>
    \A i \in DOMAIN components :
      /\ (patterns[i] = "fallback")
           <=> (\A k \in DOMAIN PatternNames :
                  ~TryPattern(components[i].original_line, PatternNames[k]).ok)
      /\ patterns[i] = "fallback"
           => /\ Bare(before[i])
              /\ before[i].confidence = 20
              /\ before[i].issues = FallbackIssues
              /\ Bare(components[i])
              /\ SubSeq(components[i].issues, 1, 2) = FallbackIssues

\* the line "ab 5", which no pattern matches, recorded by the fallback
C15_Witness ==
  /\ OneRecordBy("fallback")
  /\ text = <<"a", "b", " ", "5">>
  /\ before[1].confidence = 20
  /\ components[1].test_name = <<"a", "b">>
  /\ components[1].value = NumV(5, 0)

\* C16: the confidence of every record is within [0, 1] (0 to 100
\* hundredths) when its validation begins, after it and after enrichment,
\* and validation never raises it
C16_ConfidenceBounded ==
  stage \in {"parsed", "enriched"} =>
    /\ Len(before) = Len(components)
    /\ \A i \in DOMAIN components :
         /\ before[i].confidence \in 0..100
         /\ components[i].confidence \in 0..100
         /\ components[i].confidence <= before[i].confidence

\* a record of the fallback, whose validation takes the confidence from 0.2
\* to the floor 0.1, and after enrichment
C16_Witness ==
  /\ stage = "enriched" /\ Len(components) = 1
  /\ before[1].confidence = 20
  /\ components[1].confidence = 10

\* C17: a line written in the CSV layout Name,value,unit,range,status with
\* the range min-max, recorded by the CSV pattern, gives a record with
\* ref_range_min = min and ref_range_max = max
C17_CsvRange ==
  (/\ OneRecordBy("csvPattern")
   /\ src.layout = "csv" /\ src.range.kind = "minmax" /\ src.range.sep = Dash
   /\ src.suffix # <<>>)
  => /\ components[1].ref_range_min = src.range.lo.n
     /\ components[1].ref_range_max = src.range.hi.n

\* the match of the pattern that made component i on its line, and whether
\* its group n captured anything
CapturedBy(i) == Match(components[i].original_line, PatternOf(patterns[i]))
HasGroup(i, n) == Len(Group(components[i].original_line, CapturedBy(i), n)) > 0
\* the parts of the confidence of component i that do not come from its
\* range: the base, the unit, the colon layout, the status and the
\* abbreviation
SeedTerms(i) ==
  50 + (IF before[i].unit # <<>> THEN 20 ELSE 0)
     + (IF patterns[i] = "fullPattern" THEN 30 ELSE 0)
     + (IF Match(components[i].original_line, BracketStatusRe).ok THEN 10
        ELSE IF Match(components[i].original_line, WordStatusRe).ok THEN 5 ELSE 0)
     + (IF before[i].abbreviation # Undefined THEN 5 ELSE 0)
\* the part that comes from the range as C18 states it: 0.2 for a numeric
\* minimum and maximum, else 0.1 for a comparison, else 0.05 for a text
RangeTermAsStated(i) ==
  IF IsNum(before[i].ref_range_min) /\ IsNum(before[i].ref_range_max) THEN 20
  ELSE IF HasGroup(i, 6) THEN 10
  ELSE IF before[i].ref_range_text # Undefined THEN 5
  ELSE 0
\* the same with the text counted only where the pattern captured it
RangeTerm(i) ==
  IF IsNum(before[i].ref_range_min) /\ IsNum(before[i].ref_range_max) THEN 20
  ELSE IF HasGroup(i, 6) THEN 10
  ELSE IF HasGroup(i, 7) THEN 5
  ELSE 0
\* 0.1 where the range text is the 'Not Estab.' that the search of the
\* whole line for (Not Estab.) sets, no captured text being there
NotEstabTerm(i) ==
  IF before[i].ref_range_text = StrV(NOT_ESTAB) /\ ~HasGroup(i, 6) /\ ~HasGroup(i, 7)
  THEN 10 ELSE 0

\* C18 as stated: the confidence of a record of a pattern, when its
\* validation begins, is min(1, 0.5 + unit + colon + range + status +
\* abbreviation) with 0.2, 0.1 or 0.05 for the range
C18_SeedAsStated ==
  stage = "parsed" =>
    \A i \in DOMAIN components :
      patterns[i] # "fallback"
        => before[i].confidence = Min(100, SeedTerms(i) + RangeTermAsStated(i))

\* C18: the confidence of a record of a pattern, when its validation
\* begins, is min(1, 0.5 + 0.2 for a unit + 0.3 for the colon pattern + (0.2
\* for a numeric minimum and maximum, else 0.1 for a captured comparison,
\* else 0.05 for another captured parenthetical text) + 0.1 where the range
\* text 'Not Estab.' was set from (Not Estab.) in the line + 0.1 for a
\* bracketed status or else 0.05 for a status word + 0.05 for an
\* abbreviation)
C18_Seed ==
  stage = "parsed" =>
    \A i \in DOMAIN components :
      patterns[i] # "fallback"
        => before[i].confidence
             = Min(100, SeedTerms(i) + RangeTerm(i) + NotEstabTerm(i))

\* a record of the simple pattern for a line that ends with (Not Estab.):
\* 0.5 + 0.2 for the unit + 0.1 for Not Estab.
C18_Witness ==
  /\ OneRecordBy("simplePattern")
  /\ before[1].ref_range_text = StrV(NOT_ESTAB)
  /\ before[1].abbreviation = Undefined /\ before[1].status = Undefined
  /\ before[1].confidence = 80

\* the confidence that validation leaves to a record named name that began
\* it with confidence c and carries n issues
Reduced(c, name, n) ==
  IF n = 0 THEN c
  ELSE Max(10, (IF Len(name) < 2 THEN Max(0, c - 30) ELSE c) - Min(n * 15, 50))

\* C19 as stated: after parse and enrichment the confidence of every record
\* is the confidence it began validation with, reduced for the number of
\* issues the record has then
C19_ReducedByFinalIssues ==
  stage = "enriched" =>
    \A i \in DOMAIN components :
      components[i].confidence
        = Reduced(before[i].confidence, components[i].test_name, Len(components[i].issues))

\* C19: validation runs in parseText, before enrichment: the confidence of
\* every record that parseText returns is the confidence it began
\* validation with (less 0.3, not below 0, for a name shorter than 2
\* characters) less min(n * 0.15, 0.5), not below 0.1, for the n issues the
\* record has then, untouched for n = 0; enrichment leaves the confidence
\* as it is, also where it removes an issue
C19_ReducedAtParse ==
  [][/\ stage' = "parsed"
          => \A i \in DOMAIN components' :
               components'[i].confidence
                 = Reduced(before'[i].confidence, components'[i].test_name,
                           Len(components'[i].issues))
     /\ stage' = "enriched"
          => \A i \in DOMAIN components' :
               components'[i].confidence = components[i].confidence]_vars

\* an enriched record without issues whose confidence is still the 0.85
\* that validation left when the unit was missing
C19_Witness ==
  /\ stage = "enriched" /\ Len(components) = 1
  /\ components[1].issues = <<>>
  /\ components[1].unit # <<>>
  /\ before[1].unit = <<>>
  /\ before[1].confidence = 100
  /\ components[1].confidence = 85

\* the issues list holds the issue x
HasIssue(r, x) == \E k \in DOMAIN r.issues : r.issues[k] = x
\* none of the three range fields of r holds anything
NoRangeAtAll(r) ==
  /\ r.ref_range_min = Undefined /\ r.ref_range_max = Undefined
  /\ r.ref_range_text \in {Undefined, StrV(<<>>)}

\* C20: after parse and enrichment every record has the issue "Unit not
\* detected" exactly when its unit is empty, the issue "Reference range not
\* detected" exactly when its minimum, maximum and range text are all unset
\* or empty, and no issue twice
C20_IssuesReflectRecord ==
  stage = "enriched" =>
    \A i \in DOMAIN components :
      /\ HasIssue(components[i], "Unit not detected") <=> components[i].unit = <<>>
      /\ HasIssue(components[i], "Reference range not detected")
           <=> NoRangeAtAll(components[i])
      /\ \A k, l \in DOMAIN components[i].issues :
           components[i].issues[k] = components[i].issues[l] => k = l

C13_EditOnlyField ==
  [][(stage' = "edited" /\ edits' = edits + 1)
       => /\ Len(components') = Len(components)
          /\ failedLineCount' = failedLineCount
          /\ \A i \in DOMAIN components :
               /\ components'[i].confidence = components[i].confidence
               /\ components'[i].issues = components[i].issues
          /\ \E index \in DOMAIN components, field \in EditableFields :
               components' = [components EXCEPT ![index] =
                                [@ EXCEPT ![field] = components'[index][field]]]]_vars

\* a component whose name was edited to one character and whose issues
\* say nothing of a short name
C13_Witness ==
  /\ stage = "edited"
  /\ \E i \in DOMAIN components :
       /\ components[i].test_name = <<" ">>
       /\ ~HasIssue(components[i], "Test name too short")
       /\ components[i].confidence > 10

\* the results the search gave for the name
ResultsFor(name) == {pair[2] : pair \in {q \in searched : q[1] = name}}

\* C21: after a parse with its enrichment a record has a
\* canonical_test_name exactly when the search for its test_name gave a
\* match, and then the name of the matched item; a record whose search gave
\* no match is the record parseText returned, nothing changed
C21_CanonicalIffMatch ==
  stage = "enriched" =>
    \A i \in DOMAIN components :
      /\ Cardinality(ResultsFor(components[i].test_name)) = 1
      /\ \A matches \in ResultsFor(components[i].test_name) :
           IF matches = <<>>
           THEN /\ components[i].canonical_test_name = Undefined
                /\ components[i] = Validate(before[i])
           ELSE components[i].canonical_test_name = StrV(matches[1].test_name)

\* two records of one parse, the first matched by the search and the
\* second not
C21_Witness ==
  /\ stage = "enriched" /\ Len(components) = 2
  /\ ResultsFor(components[1].test_name) # {<<>>}
  /\ ResultsFor(components[2].test_name) = {<<>>}
  /\ components[1].canonical_test_name # Undefined
  /\ components[2].canonical_test_name = Undefined

\* the name the pattern that made component i captured in its line:
\* match[1] trimmed, without trailing punctuation
CapturedName(i) ==
  ReplaceFirst(Trim(Group(components[i].original_line, CapturedBy(i), 1)), TrailingPunct)
\* the name without the part that m matched and the spaces before it
WithoutMatch(name, m) ==
  Trim(TrimEnd(SubSeq(name, 1, m.from - 1)) \o SubSeq(name, m.end, Len(name)))
\* the abbreviation and the name that the detection is to give for the
\* captured name, m being the first parenthetical of capitals and digits
AbbreviationTaken(r, name, m) ==
  IF m.ok
  THEN /\ r.abbreviation = StrV(Group(name, m, 1))
       /\ r.test_name = WithoutMatch(name, m)
       /\ ~Includes(r.test_name, <<"(">> \o Group(name, m, 1) \o <<")">>)
  ELSE /\ r.abbreviation = Undefined
       /\ r.test_name = name

\* C22: where the name a pattern captured holds a parenthetical of capitals
\* and digits, its content is the abbreviation and the test_name is the
\* name without that parenthetical, so that it no longer holds the
\* abbreviation; another name is kept as it is, without abbreviation
C22_AbbreviationRemoved ==
  stage = "parsed" =>
    \A i \in DOMAIN components :
      patterns[i] # "fallback"
        => AbbreviationTaken(components[i], CapturedName(i),
                             Match(CapturedName(i), AbbreviationRe))

\* the steps that run the auto-parse effect: on a new debounced text, a
\* new parse mode, a new parseText
EffectRuns == {"debounced", "mode", "toggled"}
\* the steps of handleSubmit
SubmitSteps == {"refused", "submitted", "updated", "failed", "created"}

Parsed ==
  \/ stage' = "enriched"
  \/ stage' \in EffectRuns /\ parseMode' = "auto" /\ Trim(debouncedText') # <<>>

\* C24: a parse that leaves failedLineCount > 0 shows the advisory
\* notification of the failed lines, also when it made no record
C24_FailedLinesNotified ==
  [][Parsed /\ failedLineCount' > 0 => "Some Lines Could Not Be Parsed" \in effects']_vars

\* the list and the count are those of the enriched parse of the text
ParseOf(t, settings, list, count) ==
  /\ count = parseText(t, settings).failedLineCount
  /\ \E found \in [DOMAIN parseText(t, settings).components -> SearchResults] :
       list = enrichWithStandardizedTests(parseText(t, settings).components, found)

\* C30: a run of the auto-parse effect in manual mode, and a change of the
\* text in any mode, leave the list and failedLineCount as they are; a run
\* in auto mode leaves them the enriched parse of the debounced text, or
\* the empty list and 0 for a blank text
C30_AutoParseEffect ==
  [][/\ stage' = "typed" =>
          components' = components /\ failedLineCount' = failedLineCount
     /\ stage' \in EffectRuns /\ parseMode' = "manual" =>
          components' = components /\ failedLineCount' = failedLineCount
     /\ stage' \in EffectRuns /\ parseMode' = "auto" /\ Trim(debouncedText') # <<>> =>
          ParseOf(debouncedText', parseSettings', components', failedLineCount')
     /\ stage' \in EffectRuns /\ parseMode' = "auto" /\ Trim(debouncedText') = <<>> =>
          components' = <<>> /\ failedLineCount' = 0]_vars

\* a text with lines was debounced in manual mode and nothing was parsed
C30_Witness ==
  /\ stage = "debounced"
  /\ parseMode = "manual"
  /\ Trim(debouncedText) # <<>>
  /\ components = <<>>
  /\ failedLineCount = 0

\* the date is missing or invalid, or lies in the future
BadDate(date) == date.k = "null" \/ date.time \in {"NaN", "future"}

\* C26: handleSubmit, called with an empty list or with a date that is
\* missing, invalid or in the future, sends no call and leaves the list,
\* the text and the date as they are
C26_RefusedSendsNothing ==
  [][stage' \in {"refused", "submitted"} /\ (components = <<>> \/ BadDate(completedDate)) =>
       /\ calls' = calls
       /\ pc' = "idle"
       /\ ~isSubmitting'
       /\ components' = components
       /\ text' = text
       /\ completedDate' = completedDate]_vars

\* a list with a future date was refused
C26_Witness ==
  /\ stage = "refused"
  /\ effects = {"Invalid Date"}
  /\ components # <<>>
  /\ calls = <<>>

\* C27: the bulk create is sent only after the update of the date has
\* succeeded, never after it failed, and a step of the submission resets
\* the list only when the bulk create has succeeded
C27_BulkAfterUpdate ==
  [][/\ \A k \in DOMAIN calls' :
          calls'[k].call = "bulk" =>
            k = 2 /\ calls'[1].call = "put" /\ calls'[1].reply = "ok"
     /\ stage' \in SubmitSteps /\ components' # components =>
          /\ Len(calls') = 2
          /\ calls'[2].call = "bulk"
          /\ calls'[2].reply = "ok"]_vars

\* the update failed: no bulk create was sent and the list is there
C27_Witness ==
  /\ stage = "failed"
  /\ Len(calls) = 1
  /\ calls[1].reply = "failed"
  /\ components # <<>>

Submittable(comp) == IsNum(comp.value) /\ Len(Trim(comp.test_name)) > 0
\* the names of the records of a list
NamesOf(list) == [k \in DOMAIN list |-> list[k].test_name]

\* C29: the records of the bulk create are those of the list that have a
\* numeric value and a name that is not blank, in the order of the list,
\* with display_order 1..n
C29_SubmittedRecordsValid ==
  pc = "bulk" =>
    /\ \A k \in DOMAIN calls[2].body :
         /\ IsNum(calls[2].body[k].value)
         /\ Len(Trim(calls[2].body[k].test_name)) > 0
         /\ calls[2].body[k].display_order = k
    /\ NamesOf(calls[2].body) = NamesOf(SelectSeq(closure.parsedComponents, Submittable))

\* null and undefined both say that the field is not set
SameValue(a, b) == a = b \/ (a \in {Null, Undefined} /\ b \in {Null, Undefined})
\* the fields of the helper's result are those of the component
SameFields(result, component) ==
  /\ result.test_name = component.test_name
  /\ result.value = component.value
  /\ result.unit = component.unit
  /\ SameValue(result.ref_range_min, component.ref_range_min)
  /\ SameValue(result.ref_range_max, component.ref_range_max)
  /\ SameValue(result.ref_range_text, component.ref_range_text)
  /\ SameValue(result.status, component.status)
\* parseLine gives a result exactly for the line that gave a component
Agree(helper, list) ==
  IF helper.ok THEN Len(list) = 1 /\ SameFields(helper.parsed, list[1])
  ELSE Len(list) = 0
\* the text is one line that the parse does not skip as a header
OneLine == Len(Split(text)) = 1 /\ Len(Trim(text)) > 0 /\ ~parseSettings.detectHeaders

\* C25: for a single line, parseLine gives a result exactly when parseText
\* gives a component, and the two agree on test_name, value, unit,
\* ref_range_min, ref_range_max, ref_range_text and status
C25_ParseLineAgrees ==
  stage = "parsed" /\ OneLine => Agree(parseLine(text), components)

====
